---- MODULE Spec2Model ----
(***************************************************************************)
(* A model of sqomega: the SQW byte-stream codec (_low_level_io.py), the   *)
(* IR and its type-tag writer (_ir.py, _read_write.py), the schema blocks  *)
(* (_models.py), the two-pass file builder (_build.py) and the reader      *)
(* facade (_sqw.py).                                                       *)
(*                                                                         *)
(* Values.  A byte is a number in 0..255 and a stream is a sequence of     *)
(* bytes with a position.  A Python str is the sequence of its code        *)
(* points, so that its length (len) and its UTF-8 byte count differ for    *)
(* non-ASCII text.  An f64 is the sequence of the 8 bytes of its IEEE-754  *)
(* representation, most significant byte first.                            *)
(***************************************************************************)
EXTENDS Integers, Sequences, FiniteSets, TLC

\* ------------------------------------------------------------------ bounds

\* register_pixel_data is called with n_pixels in 0..MaxPixels.
MaxPixels == 1
\* register_pixel_data is called with the 9 default rows or with 0..MaxRows rows.
MaxRows == 0
\* register_pixel_data is called with n_dims in 0..MaxDims.
MaxDims == 1
\* add_dnd_metadata is called at most MaxDnd times on one builder.
MaxDnd == 2
\* A caller-made stream holds at most MaxStream bytes.
MaxStream == 4

\* --------------------------------------------------------------- constants

None == "None"

\* Byteorder members.
little == "little"
big == "big"
Byteorder == {little, big}

\* The byte order of the host: sys.byteorder is one of the two, fixed per build.
HostByteorders == {little, big}

\* SqwFileType
DND == 0
SQW == 1

\* SqwDataBlockType values, as str.
regular == <<100, 97, 116, 97, 95, 98, 108, 111, 99, 107>>                     \* "data_block"
pix == <<112, 105, 120, 95, 100, 97, 116, 97, 95, 98, 108, 111, 99, 107>>      \* "pix_data_block"
dnd == <<100, 110, 100, 95, 100, 97, 116, 97, 95, 98, 108, 111, 99, 107>>      \* "dnd_data_block"
SqwDataBlockType == {regular, pix, dnd}

\* TypeTag
TagLogical == 0
TagChar == 1
TagF64 == 3
TagCell == 23
TagStruct == 24
TagSerializable == 32
TagU32 == 10
TagU64 == 12

\* The values of the members of ir.TypeTag.
TypeTag == {0, 1, 3, 4, 5, 6, 9, 10, 11, 12, 23, 24, 32}

\* len(_DEFAULT_PIX_ROWS)
DefaultPixRows == 9

\* Data block names.
NameMainHeader == << <<>>, <<109, 97, 105, 110, 95, 104, 101, 97, 100, 101, 114>> >>   \* ("", "main_header")
NameExpdata == << <<101, 120, 112, 101, 114, 105, 109, 101, 110, 116, 95, 105, 110, 102, 111>>,
                  <<101, 120, 112, 100, 97, 116, 97>> >>                 \* ("experiment_info", "expdata")
NamePixMetadata == << <<112, 105, 120>>, <<109, 101, 116, 97, 100, 97, 116, 97>> >>    \* ("pix", "metadata")
NamePixDataWrap == << <<112, 105, 120>>, <<100, 97, 116, 97, 95, 119, 114, 97, 112>> >> \* ("pix", "data_wrap")
NameDndMetadata == << <<100, 97, 116, 97>>, <<109, 101, 116, 97, 100, 97, 116, 97>> >> \* ("data", "metadata")

\* "horace"
ProgName == <<104, 111, 114, 97, 99, 101>>

\* f64 values, as IEEE-754 bytes, most significant first.
F64Zero == <<0, 0, 0, 0, 0, 0, 0, 0>>
F64PosInf == <<127, 240, 0, 0, 0, 0, 0, 0>>
F64NegInf == <<255, 240, 0, 0, 0, 0, 0, 0>>
\* prog_version=4.0
ProgVersion == <<64, 16, 0, 0, 0, 0, 0, 0>>

\* ----------------------------------------------------------------- helpers

Min(a, b) == IF a < b THEN a ELSE b

Reverse(s) == [i \in 1..Len(s) |-> s[Len(s) + 1 - i]]

RECURSIVE Log2(_)
\* floor(log2(n)) for n >= 1
Log2(n) == IF n < 2 THEN 0 ELSE 1 + Log2(n \div 2)

RECURSIVE Pow2(_)
Pow2(e) == IF e = 0 THEN 1 ELSE 2 * Pow2(e - 1)

\* The double with biased exponent `biased` and the top 20 fraction bits frac/2^e.
FloatOfParts(biased, frac, p) ==
    << biased \div 16,
       ((biased % 16) * 16) + (((frac * 16) \div p) % 16),
       ((frac * 4096) \div p) % 256,
       ((frac * 1048576) \div p) % 256,
       0, 0, 0, 0 >>

\* float(n) for an int 0 <= n < 2048, as the bytes of the double.
FloatOfInt(n) ==
    IF n = 0 THEN F64Zero
    ELSE FloatOfParts(1023 + Log2(n), n - Pow2(Log2(n)), Pow2(Log2(n)))

\* The UTF-8 bytes of one code point below 0x800.
EncodeChar(c) == IF c < 128 THEN <<c>> ELSE <<192 + (c \div 64), 128 + (c % 64)>>

RECURSIVE EncodeUtf8(_)
\* str.encode('utf-8'): the bytes of the code points, in order (halving the
\* string keeps the evaluation shallow).
EncodeUtf8(s) ==
    IF s = <<>> THEN <<>>
    ELSE IF Len(s) = 1 THEN EncodeChar(s[1])
    ELSE LET h == Len(s) \div 2
         IN EncodeUtf8(SubSeq(s, 1, h)) \o EncodeUtf8(SubSeq(s, h + 1, Len(s)))

RECURSIVE ToBytesBig(_, _)
\* int.to_bytes(n, 'big'), least significant byte last.
ToBytesBig(v, n) == IF n = 0 THEN <<>> ELSE Append(ToBytesBig(v \div 256, n - 1), (v % 256))

\* int.to_bytes(n, byteorder)
ToBytes(v, n, bo) == IF bo = big THEN ToBytesBig(v, n) ELSE Reverse(ToBytesBig(v, n))

RECURSIVE FromBytesBig(_)
FromBytesBig(buf) ==
    IF buf = <<>> THEN 0 ELSE (FromBytesBig(SubSeq(buf, 1, Len(buf) - 1)) * 256) + buf[Len(buf)]

\* int.from_bytes(buf, byteorder); a buffer shorter than asked for is taken as it is.
FromBytes(buf, bo) == IF bo = big THEN FromBytesBig(buf) ELSE FromBytesBig(Reverse(buf))

\* struct.pack of an f64 in the byte order.
PackF64(v, bo) == IF bo = big THEN v ELSE Reverse(v)

\* ------------------------------------------------------------ binary stream

\* BytesIO.read(n) at position p: what is there, up to n bytes.
StreamRead(buf, p, n) == IF p >= Len(buf) THEN <<>> ELSE SubSeq(buf, p + 1, Min(p + n, Len(buf)))

\* A buffer of at least p bytes: a gap up to p is padded with zeros.
Padded(buf, p) == IF p > Len(buf) THEN buf \o [i \in 1..(p - Len(buf)) |-> 0] ELSE buf

Overwrite(padded, p, bytes) ==
    SubSeq(padded, 1, p) \o bytes \o SubSeq(padded, p + Len(bytes) + 1, Len(padded))

\* BytesIO.write(bytes) at position p: overwrites, extends, and pads a gap with zeros.
StreamWrite(buf, p, bytes) == IF bytes = <<>> THEN buf ELSE Overwrite(Padded(buf, p), p, bytes)


\* ------------------------------------------------- LowLevelSqw, the writes
\* A LowLevelSqw is [buf, pos, byteorder, err]: the stream it wraps (content and
\* position), its byte order, and the exception that ended the call in progress
\* (None while there is none; once set, the remaining steps of the call are
\* skipped, as when the exception unwinds).

\* What the message of an exception says of a type tag: nothing.
NoNote == [tag |-> -1, position |-> -1]

LowLevelSqw(buf, pos, byteorder) ==
    [buf |-> buf, pos |-> pos, byteorder |-> byteorder, err |-> None, note |-> NoNote]

Raise(io, exc) == IF io.err # None THEN io ELSE [io EXCEPT !.err = exc]

\* _IORegistry.get finds no implementation for the type ty of the object array
\* that starts at pos: ValueError("No {action} for SQW type {ty} as position {pos}")
registry_get(io, registered, ty, pos) ==
    IF io.err # None \/ ty \in registered THEN io
    ELSE [io EXCEPT !.err = "ValueError", !.note = [tag |-> ty, position |-> pos]]

write_raw(io, bytes) ==
    IF io.err # None THEN io
    ELSE [io EXCEPT !.buf = StreamWrite(io.buf, io.pos, bytes), !.pos = io.pos + Len(bytes)]

seek(io, pos) == IF io.err # None THEN io ELSE [io EXCEPT !.pos = pos]

write_u8(io, value) ==
    IF value < 0 \/ value > 255 THEN Raise(io, "OverflowError")
    ELSE write_raw(io, ToBytes(value, 1, io.byteorder))

write_u32(io, value) ==
    IF value < 0 THEN Raise(io, "OverflowError")
    ELSE write_raw(io, ToBytes(value, 4, io.byteorder))

write_u64(io, value) ==
    IF value < 0 THEN Raise(io, "OverflowError")
    ELSE write_raw(io, ToBytes(value, 8, io.byteorder))

write_f64(io, value) == write_raw(io, PackF64(value, io.byteorder))

write_logical(io, value) == write_raw(io, value)

\* The UTF-8 bytes of a str, with no length before them.
write_chars(io, value) == write_raw(io, EncodeUtf8(value))

\* A length-prefixed character array: u32 byte length, then the UTF-8 bytes.
write_char_array(io, value) == write_chars(write_u32(io, Len(EncodeUtf8(value))), value)

RECURSIVE write_u32s(_, _)
write_u32s(io, values) ==
    IF values = <<>> \/ io.err # None THEN io ELSE write_u32s(write_u32(io, Head(values)), Tail(values))

\* ---------------------------------------------------------------------- IR

String(value) == [cls |-> "String", ty |-> TagChar, value |-> value]
F64(value) == [cls |-> "F64", ty |-> TagF64, value |-> value]
\* value: <<1>> for True, <<0>> for False (the one byte of the bool)
Logical(value) == [cls |-> "Logical", ty |-> TagLogical, value |-> value]
Datetime(value) == [cls |-> "Datetime", ty |-> TagChar, value |-> value]
ObjectArray(ty, shape, data) == [cls |-> "ObjectArray", ty |-> ty, shape |-> shape, data |-> data]
CellArray(shape, data) == [cls |-> "CellArray", ty |-> TagCell, shape |-> shape, data |-> data]
Struct(field_names, field_values) ==
    [cls |-> "Struct", ty |-> TagStruct, field_names |-> field_names, field_values |-> field_values]

Digits2(n) == <<48 + (n \div 10), 48 + (n % 10)>>
Digits4(n) == Digits2(n \div 100) \o Digits2(n % 100)

\* datetime.isoformat(timespec='seconds') of an aware UTC datetime:
\* "YYYY-MM-DDTHH:MM:SS+00:00"; the microseconds are dropped.
isoformat(dt) ==
    Digits4(dt.year) \o <<45>> \o Digits2(dt.month) \o <<45>> \o Digits2(dt.day) \o <<84>>
    \o Digits2(dt.hour) \o <<58>> \o Digits2(dt.minute) \o <<58>> \o Digits2(dt.second)
    \o <<43, 48, 48, 58, 48, 48>>

serialize_field(field) ==
    IF field.cls = "Datetime" THEN String(isoformat(field.value)) ELSE field

\* An array-valued field (ir.Array, or an ObjectArray a schema builds itself) is
\* already an object array and is the cell as it is.
lower_array_field(field) == field

serialize_cell(field) ==
    IF field.cls = "ObjectArray" THEN lower_array_field(field)
    ELSE ObjectArray(field.ty, <<1>>, <<serialize_field(field)>>)

\* fields: the dict of _serialize_to_dict, a sequence of [key, value] in insertion order
serialize_to_ir(fields) ==
    Struct([i \in 1..Len(fields) |-> fields[i].key],
           CellArray(<<Len(fields), 1>>, [i \in 1..Len(fields) |-> serialize_cell(fields[i].value)]))

to_object_array(struct) == ObjectArray(TagStruct, <<1>>, <<struct>>)

\* ------------------------------------------------------- type-tag writers

\* The tags _WRITERS has a writer for.
WriterTags == {TagChar, TagCell, TagStruct, TagF64, TagLogical}

RECURSIVE write_object_array(_, _)
RECURSIVE write_single_struct(_, _)
RECURSIVE write_objects(_, _, _)

\* The writer of tag ty applied to the objects: _write_char_array, _write_cell,
\* _write_struct, _write_f64, _write_logical.
write_objects(io, ty, objects) ==
    IF objects = <<>> \/ io.err # None THEN io
    ELSE IF Len(objects) = 1
    THEN CASE ty = TagChar -> write_chars(io, objects[1].value)
           [] ty = TagCell -> write_object_array(io, objects[1])
           [] ty = TagStruct -> write_single_struct(io, objects[1])
           [] ty = TagF64 -> write_f64(io, objects[1].value)
           [] ty = TagLogical -> write_logical(io, objects[1].value)
    ELSE \* the first half of the objects, then the rest, in order
         write_objects(write_objects(io, ty, SubSeq(objects, 1, Len(objects) \div 2)), ty,
                       SubSeq(objects, (Len(objects) \div 2) + 1, Len(objects)))

RECURSIVE write_name_sizes(_, _)
write_name_sizes(io, names) ==
    IF names = <<>> \/ io.err # None THEN io ELSE write_name_sizes(write_u32(io, Len(Head(names))), Tail(names))

RECURSIVE write_names(_, _)
write_names(io, names) ==
    IF names = <<>> \/ io.err # None THEN io ELSE write_names(write_chars(io, Head(names)), Tail(names))

write_single_struct(io, struct) ==
    write_object_array(
        write_names(
            write_name_sizes(write_u32(io, Len(struct.field_names)), struct.field_names),
            struct.field_names),
        struct.field_values)

\* The writer of the objects' tag run on the stream _WRITERS.get left
write_registered(io, objects) ==
    IF io.err # None THEN io ELSE write_objects(io, objects.ty, objects.data)

\* _WRITERS.get(objects.ty, position), after the tag and the shape are out, and
\* the writer's run
write_payload(io, objects, position) ==
    write_registered(registry_get(io, WriterTags, objects.ty, position), objects)

write_object_array(io, objects) ==
    write_payload(
        write_u32s(write_u8(write_u8(io, objects.ty), Len(objects.shape)), objects.shape),
        objects, io.pos)


\* ------------------------------------------------------------ schema blocks

\* A dict that appends every assignment, whether the key is there or not.
DictAppend(d, key, value) == Append(d, [key |-> key, value |-> value])

\* dict[key] = value: an existing key keeps its place, a new one goes last.
DictSet(d, key, value) ==
    IF \E i \in 1..Len(d) : d[i].key = key
    THEN [i \in 1..Len(d) |-> IF d[i].key = key THEN [key |-> key, value |-> value] ELSE d[i]]
    ELSE Append(d, [key |-> key, value |-> value])

DictHas(d, key) == \E i \in 1..Len(d) : d[i].key = key

\* dict[key] of a key the dict holds
DictGet(d, key) == d[CHOOSE i \in 1..Len(d) : d[i].key = key].value

DictKeys(d) == [i \in 1..Len(d) |-> d[i].key]

\* datetime(1, 1, 1, tzinfo=timezone.utc)
PlaceholderDate == [year |-> 1, month |-> 1, day |-> 1, hour |-> 0, minute |-> 0, second |-> 0,
                    microsecond |-> 0]

\* The value datetime.now(tz=timezone.utc) takes when create() runs: one with a fraction
\* of a second, which isoformat(timespec='seconds') drops.
Clock == {[year |-> 2025, month |-> 12, day |-> 31, hour |-> 23, minute |-> 59, second |-> 59,
           microsecond |-> 999999]}

SqwMainHeader(full_filename, title, nfiles, creation_date) ==
    [cls |-> "SqwMainHeader", full_filename |-> full_filename, title |-> title,
     nfiles |-> nfiles, creation_date |-> creation_date]

SqwMultiIXExperiment(array_dat) == [cls |-> "SqwMultiIXExperiment", array_dat |-> array_dat]

\* data_range: [shape, values], the ndarray in C order
SqwPixelMetadata(full_filename, npix, data_range) ==
    [cls |-> "SqwPixelMetadata", full_filename |-> full_filename, npix |-> npix,
     data_range |-> data_range]

\* axes, proj: "stock" for SqwLineAxes and SqwLineProj as they are, whose
\* _serialize_to_dict raises NotImplementedError; "custom" for objects of the
\* caller's own Serializable subclasses, which lower to the one field title="".
SqwDndMetadata(axes, proj, creation_date) ==
    [cls |-> "SqwDndMetadata", axes |-> axes, proj |-> proj, creation_date |-> creation_date]

\* np.c_[np.full(n, np.inf), np.full(n, -np.inf)]
InitialDataRange(n) ==
    [shape |-> <<n, 2>>,
     values |-> [i \in 1..(2 * n) |-> IF i % 2 = 1 THEN F64PosInf ELSE F64NegInf]]

\* ir.Array(ndarray, ty=f64): the object array of the ndarray's shape and elements
Array(ndarray) == ObjectArray(TagF64, ndarray.shape, [i \in 1..Len(ndarray.values) |-> F64(ndarray.values[i])])

Field(key, value) == [key |-> key, value |-> value]

\* _serialize_to_dict of the caller's axes or proj object
CustomAxesDict == << Field(<<116, 105, 116, 108, 101>>, String(<<>>)) >>   \* "title"

\* block._serialize_to_dict(): [err, fields]
serialize_to_dict(block) ==
    CASE block.cls = "SqwMainHeader" ->
           [err |-> None, fields |-> <<
              Field(<<115, 101, 114, 105, 97, 108, 95, 110, 97, 109, 101>>,        \* "serial_name"
                    String(<<109, 97, 105, 110, 95, 104, 101, 97, 100, 101, 114, 95, 99, 108>>)), \* "main_header_cl"
              Field(<<118, 101, 114, 115, 105, 111, 110>>, F64(FloatOfInt(2))),      \* "version"
              Field(<<102, 117, 108, 108, 95, 102, 105, 108, 101, 110, 97, 109, 101>>, \* "full_filename"
                    String(block.full_filename)),
              Field(<<116, 105, 116, 108, 101>>, String(block.title)),               \* "title"
              Field(<<110, 102, 105, 108, 101, 115>>, F64(FloatOfInt(block.nfiles))), \* "nfiles"
              Field(<<99, 114, 101, 97, 116, 105, 111, 110, 95, 100, 97, 116, 101>>,  \* "creation_date"
                    Datetime(block.creation_date)),
              Field(<<99, 114, 101, 97, 116, 105, 111, 110, 95, 100, 97, 116, 101, 95, 100, 101, 102,
                      105, 110, 101, 100, 95, 112, 114, 105, 118, 97, 116, 101, 108, 121>>,
                    Logical(<<0>>)) >>]                          \* "creation_date_defined_privately"
      [] block.cls = "SqwPixelMetadata" ->
           [err |-> None, fields |-> <<
              Field(<<115, 101, 114, 105, 97, 108, 95, 110, 97, 109, 101>>,
                    String(<<112, 105, 120, 95, 109, 101, 116, 97, 100, 97, 116, 97>>)), \* "pix_metadata"
              Field(<<118, 101, 114, 115, 105, 111, 110>>, F64(FloatOfInt(1))),
              Field(<<102, 117, 108, 108, 95, 102, 105, 108, 101, 110, 97, 109, 101>>,
                    String(block.full_filename)),
              Field(<<110, 112, 105, 120>>, F64(FloatOfInt(block.npix))),           \* "npix"
              Field(<<100, 97, 116, 97, 95, 114, 97, 110, 103, 101>>,               \* "data_range"
                    Array(block.data_range)) >>]
      [] block.cls = "SqwMultiIXExperiment" ->
           [err |-> None, fields |-> <<
              Field(<<115, 101, 114, 105, 97, 108, 95, 110, 97, 109, 101>>,
                    String(<<73, 88, 95, 101, 120, 112, 101, 114, 105, 109, 101, 110, 116>>)), \* "IX_experiment"
              Field(<<118, 101, 114, 115, 105, 111, 110>>, F64(FloatOfInt(3))),
              Field(<<97, 114, 114, 97, 121, 95, 100, 97, 116>>,                     \* "array_dat"
                    ObjectArray(TagStruct, <<Len(block.array_dat)>>, block.array_dat)) >>]
      [] block.cls = "SqwDndMetadata" ->
           IF block.axes = "stock" \/ block.proj = "stock"
           THEN [err |-> "NotImplementedError", fields |-> <<>>]
           ELSE [err |-> None, fields |-> <<
                   Field(<<115, 101, 114, 105, 97, 108, 95, 110, 97, 109, 101>>,
                         String(<<100, 110, 100, 95, 109, 101, 116, 97, 100, 97, 116, 97>>)), \* "dnd_metadata"
                   Field(<<118, 101, 114, 115, 105, 111, 110>>, F64(FloatOfInt(1))),
                   Field(<<97, 120, 101, 115>>,                                   \* "axes"
                            ObjectArray(TagStruct, <<Len(serialize_to_ir(CustomAxesDict).field_names)>>,
                                        <<serialize_to_ir(CustomAxesDict)>>)),
                      Field(<<112, 114, 111, 106>>,                                  \* "proj"
                            ObjectArray(TagStruct, <<Len(serialize_to_ir(CustomAxesDict).field_names)>>,
                                        <<serialize_to_ir(CustomAxesDict)>>)),
                      Field(<<99, 114, 101, 97, 116, 105, 111, 110, 95, 100, 97, 116, 101, 95, 115,
                              116, 114>>, Datetime(block.creation_date)) >>]   \* "creation_date_str"

\* block.prepare_for_serialization(filepath=..., filename=...), called at time now
prepare_for_serialization(block, now) ==
    IF block.cls \in {"SqwMainHeader", "SqwDndMetadata"}
    THEN [block EXCEPT !.creation_date = now]
    ELSE block


\* ------------------------------------------------------------------ builder

SqwFileHeader(prog_name, prog_version, sqw_type, n_dims) ==
    [prog_name |-> prog_name, prog_version |-> prog_version, sqw_type |-> sqw_type,
     n_dims |-> n_dims]

SqwDataBlockDescriptor(block_type, name, position, size, locked) ==
    [block_type |-> block_type, name |-> name, position |-> position, size |-> size,
     locked |-> locked]

\* _PixPlaceholder; set is FALSE while the builder holds None
PixPlaceholder(n_pixels, rows) == [set |-> TRUE, n_pixels |-> n_pixels, rows |-> rows]
NoPixPlaceholder == [set |-> FALSE, n_pixels |-> 0, rows |-> 0]

\* *4 for f32; rows is len(self.rows)
pix_array_size(ph) == ph.n_pixels * ph.rows * 4

\* _PixPlaceholder.write
pix_placeholder_write(ph, io) == write_u64(write_u32(io, ph.rows), ph.n_pixels)

\* Byteorder.parse(value) of a str or a Byteorder: [err, value]. cls[value] looks
\* the name up among the members little and big.
parse(value) ==
    IF value \in Byteorder THEN [err |-> None, value |-> value]
    ELSE [err |-> "KeyError", value |-> None]

\* A header that leaves the dimension count at 0.
make_file_header_no_dims(b) == SqwFileHeader(ProgName, ProgVersion, SQW, 0)

make_file_header(b) == SqwFileHeader(ProgName, ProgVersion, SQW, b.n_dim)

\* A header writer that writes n_dims before sqw_type.
write_file_header_swapped(io, file_header) ==
    write_u32(
        write_u32(
            write_f64(write_char_array(io, file_header.prog_name), file_header.prog_version),
            file_header.n_dims),
        file_header.sqw_type)

write_file_header(io, file_header) ==
    write_u32(
        write_u32(
            write_f64(write_char_array(io, file_header.prog_name), file_header.prog_version),
            file_header.sqw_type),
        file_header.n_dims)

\* The position, size and locked fields of a descriptor, written at io, where
\* the position field sits
write_descriptor_tail(io, descriptor) ==
    [io |-> write_u32(write_u32(write_u64(io, descriptor.position), descriptor.size),
                      IF descriptor.locked THEN 1 ELSE 0),
     pos |-> io.pos]

\* [io, pos]: the stream after the descriptor, and where its position field sits
write_data_block_descriptor(io, descriptor) ==
    write_descriptor_tail(
        write_char_array(
            write_char_array(write_char_array(io, descriptor.block_type), descriptor.name[1]),
            descriptor.name[2]),
        descriptor)

\* _prepare_data_blocks
prepare_data_blocks(b, now) ==
    [i \in 1..Len(b.data_blocks) |->
        [key |-> b.data_blocks[i].key,
         value |-> prepare_for_serialization(b.data_blocks[i].value, now)]]

\* The buffer a block's object array was written to: [err, buf]
block_buffer(io) == [err |-> io.err, buf |-> io.buf]

\* The writing of the dict a block lowered to: [err, buf]
serialize_dict(d, byteorder) ==
    IF d.err # None THEN [err |-> d.err, buf |-> <<>>]
    ELSE block_buffer(write_object_array(LowLevelSqw(<<>>, 0, byteorder),
                                         to_object_array(serialize_to_ir(d.fields))))

\* One turn of the loop of _serialize_data_blocks: [err, buf]
serialize_block(data_block, byteorder) == serialize_dict(serialize_to_dict(data_block), byteorder)

RECURSIVE serialize_regular_blocks(_, _, _, _)
RECURSIVE serialized(_, _, _, _, _, _)

\* The loop of _serialize_data_blocks: [err, buffers, descriptors]
serialize_regular_blocks(data_blocks, byteorder, buffers, descriptors) ==
    IF data_blocks = <<>> THEN [err |-> None, buffers |-> buffers, descriptors |-> descriptors]
    ELSE serialized(Head(data_blocks).key, serialize_block(Head(data_blocks).value, byteorder),
                    Tail(data_blocks), byteorder, buffers, descriptors)

\* The rest of a turn, once the block named name is serialized as r
serialized(name, r, rest, byteorder, buffers, descriptors) ==
    IF r.err # None THEN [err |-> r.err, buffers |-> buffers, descriptors |-> descriptors]
    ELSE serialize_regular_blocks(
             rest, byteorder,
             DictSet(buffers, name, r.buf),
             DictSet(descriptors, name,
                     SqwDataBlockDescriptor(regular, name, 0, Len(r.buf), FALSE)))

\* A descriptor of the pixel data block that leaves the 4 + 8 bytes before the
\* pixel array out of the size.
pix_descriptor_array_only(ph) ==
    SqwDataBlockDescriptor(pix, NamePixDataWrap, 0, pix_array_size(ph), FALSE)

\* The descriptor of the pixel data block.
pix_descriptor(ph) ==
    SqwDataBlockDescriptor(pix, NamePixDataWrap, 0, 4 + 8 + pix_array_size(ph), FALSE)

\* The pixel data block put first.
append_pix_first(r, ph) ==
    IF r.err # None \/ ~ph.set THEN r
    ELSE [err |-> None,
          buffers |-> <<[key |-> NamePixDataWrap, value |-> <<>>]>> \o r.buffers,
          descriptors |-> <<[key |-> NamePixDataWrap, value |-> pix_descriptor(ph)]>>
                          \o r.descriptors]

\* The end of _serialize_data_blocks: the pixel data block goes last
append_pix_block(r, ph) ==
    IF r.err # None \/ ~ph.set THEN r
    ELSE [err |-> None,
          buffers |-> DictSet(r.buffers, NamePixDataWrap, <<>>),
          descriptors |-> DictSet(r.descriptors, NamePixDataWrap, pix_descriptor(ph))]

\* _serialize_data_blocks: [err, buffers, descriptors]; the buffer of the pixel
\* data block is None, here <<>>
serialize_data_blocks(b, now) ==
    append_pix_block(
        serialize_regular_blocks(prepare_data_blocks(b, now), b.byteorder, <<>>, <<>>),
        b.pix_placeholder)

RECURSIVE write_descriptors(_, _, _)
RECURSIVE descriptor_written(_, _, _, _)

\* position_offsets = {name: _write_data_block_descriptor(...)}: [io, position_offsets]
write_descriptors(io, block_descriptors, position_offsets) ==
    IF block_descriptors = <<>> \/ io.err # None
    THEN [io |-> io, position_offsets |-> position_offsets]
    ELSE descriptor_written(
             write_data_block_descriptor(io, Head(block_descriptors).value),
             Head(block_descriptors).key, Tail(block_descriptors), position_offsets)

descriptor_written(r, name, rest, position_offsets) ==
    write_descriptors(r.io, rest, DictSet(position_offsets, name, r.pos))

\* A bat_size that counts the two leading u32 as well.
bat_size_whole(position, bat_begin) == position

\* bat_size = sqw_io.position - bat_begin
bat_size_of(position, bat_begin) == position - bat_begin

\* A first position relative to the table's own buffer.
first_block_position_relative(bat_offset, position) == position

\* block_position = bat_offset + sqw_io.position
first_block_position(bat_offset, position) == bat_offset + position

\* block_position += descriptor.size
next_block_position(block_position, descriptor) == block_position + descriptor.size

RECURSIVE amend_descriptors(_, _, _, _, _)
\* The patch loop of _serialize_block_allocation_table: [io, amended_descriptors]
amend_descriptors(io, block_descriptors, position_offsets, block_position, amended_descriptors) ==
    IF block_descriptors = <<>> \/ io.err # None
    THEN [io |-> io, amended_descriptors |-> amended_descriptors]
    ELSE amend_descriptors(
             write_u64(seek(io, DictGet(position_offsets, Head(block_descriptors).key)),
                       block_position),
             Tail(block_descriptors), position_offsets,
             next_block_position(block_position, Head(block_descriptors).value),
             DictSet(amended_descriptors, Head(block_descriptors).key,
                     [Head(block_descriptors).value EXCEPT !.position = block_position]))

\* A patch of bat_size that lands on the n_blocks field.
patch_bat_size_on_n_blocks(a, bat_size, provisional) ==
    [err |-> write_u32(seek(a.io, 4), bat_size).err,
     buffer |-> write_u32(seek(a.io, 4), bat_size).buf,
     descriptors |-> a.amended_descriptors,
     provisional |-> provisional]

\* The end of _serialize_block_allocation_table: bat_size is patched in
patch_bat_size(a, bat_size, provisional) ==
    [err |-> write_u32(seek(a.io, 0), bat_size).err,
     buffer |-> write_u32(seek(a.io, 0), bat_size).buf,
     descriptors |-> a.amended_descriptors,
     provisional |-> provisional]

\* The patching of the positions, w being what the first pass wrote
patch_positions(w, block_descriptors, bat_offset, bat_begin) ==
    patch_bat_size(
        amend_descriptors(w.io, block_descriptors, w.position_offsets,
                          first_block_position(bat_offset, w.io.pos), <<>>),
        bat_size_of(w.io.pos, bat_begin),
        w.io.buf)

\* The first pass, io being the buffer with the bat_size placeholder and n_blocks
write_provisional(io, block_descriptors, bat_offset) ==
    patch_positions(write_descriptors(io, block_descriptors, <<>>), block_descriptors,
                    bat_offset, io.pos)

\* _serialize_block_allocation_table: [err, buffer, descriptors, provisional];
\* provisional is the buffer as it is before the positions and bat_size are patched
serialize_block_allocation_table(byteorder, block_descriptors, bat_offset) ==
    write_provisional(
        write_u32(write_u32(LowLevelSqw(<<>>, 0, byteorder), 0), Len(block_descriptors)),
        block_descriptors, bat_offset)

\* A create() that skips over a regular block without writing it.
write_block_skip(io, descriptor, buffer, ph) ==
    CASE descriptor.block_type = regular -> seek(io, io.pos + Len(buffer))
      [] descriptor.block_type = pix ->
           seek(pix_placeholder_write(ph, io), descriptor.position + descriptor.size)
      [] OTHER -> Raise(io, "NotImplementedError")

\* How create() emits one block.
write_block(io, descriptor, buffer, ph) ==
    CASE descriptor.block_type = regular -> write_raw(io, buffer)
      [] descriptor.block_type = pix ->
           seek(pix_placeholder_write(ph, io), descriptor.position + descriptor.size)
      [] OTHER -> Raise(io, "NotImplementedError")

RECURSIVE write_blocks(_, _, _, _)
\* The loop of create() over block_buffers.items()
write_blocks(io, block_buffers, block_descriptors, ph) ==
    IF block_buffers = <<>> \/ io.err # None THEN io
    ELSE write_blocks(
             write_block(io, DictGet(block_descriptors, Head(block_buffers).key),
                         Head(block_buffers).value, ph),
             Tail(block_buffers), block_descriptors, ph)


\* -------------------------------------------------- LowLevelSqw, the reads
\* A read gives [io, val]; after an exception val means nothing.

\* int.from_bytes(buf, byteorder) of at most 4 bytes as its 4 base-256 digits,
\* most significant first: a u32 as wide as it is, whatever the integers of the
\* checker hold.
U32Digits(buf, byteorder) ==
    [i \in 1..(4 - Len(buf)) |-> 0] \o (IF byteorder = big THEN buf ELSE Reverse(buf))

\* a < b, for two numbers of 4 digits
DigitsLess(a, b) == \E i \in 1..4 : a[i] < b[i] /\ \A j \in 1..(i - 1) : a[j] = b[j]

\* The comparison the other way round.
le_larger(le_size, be_size) == DigitsLess(be_size, le_size)

\* le_size < be_size
le_smaller(le_size, be_size) == DigitsLess(le_size, be_size)

\* A detection that leaves the stream after the bytes it read.
restore_position_not(pos, after_read_pos) == after_read_pos

\* file.seek(pos) at the end of _deduce_byteorder: where the stream is left
restore_position(pos, after_read_pos) == pos

\* The decision of _deduce_byteorder on the bytes b it read at pos
deduce_from(b, pos) ==
    [byteorder |-> IF le_smaller(U32Digits(b, little), U32Digits(b, big)) THEN little ELSE big,
     pos |-> restore_position(pos, pos + Len(b)),
     nread |-> Len(b)]

\* _deduce_byteorder(file, byteorder): [byteorder, pos, nread]: the byte order, the
\* position the stream is left at, and how many bytes were read from it
deduce_byteorder(buf, pos, byteorder) ==
    IF byteorder # None THEN [byteorder |-> byteorder, pos |-> pos, nread |-> 0]
    ELSE deduce_from(StreamRead(buf, pos, 4), pos)

\* The stream after the bytes b were read from it: [io, val]
after_read(io, b) == [io |-> [io EXCEPT !.pos = io.pos + Len(b)], val |-> b]

\* file.read(n): [io, val]
read_raw(io, n) == after_read(io, StreamRead(io.buf, io.pos, n))

u32_of(r, byteorder) == [io |-> r.io, val |-> FromBytes(r.val, byteorder)]

read_u32(io) ==
    IF io.err # None THEN [io |-> io, val |-> 0]
    ELSE u32_of(read_raw(io, 4), io.byteorder)

\* struct.unpack needs the 8 bytes: fewer raise struct.error
f64_of(r, byteorder) ==
    IF Len(r.val) < 8 THEN [io |-> Raise(r.io, "struct.error"), val |-> F64Zero]
    ELSE [io |-> r.io, val |-> PackF64(r.val, byteorder)]

read_f64(io) ==
    IF io.err # None THEN [io |-> io, val |-> F64Zero]
    ELSE f64_of(read_raw(io, 8), io.byteorder)

\* How many bytes the UTF-8 sequence led by byte b has; 0 for a byte that leads none.
Utf8Width(b) ==
    IF b < 128 THEN 1
    ELSE IF b >= 194 /\ b <= 223 THEN 2
    ELSE IF b >= 224 /\ b <= 239 THEN 3
    ELSE IF b >= 240 /\ b <= 244 THEN 4
    ELSE 0

IsContinuation(b) == b >= 128 /\ b <= 191

\* The code point of the UTF-8 sequence of width w that starts at bytes[i].
DecodeChar(bytes, i, w) ==
    IF w = 1 THEN bytes[i]
    ELSE IF w = 2 THEN ((bytes[i] - 192) * 64) + (bytes[i + 1] - 128)
    ELSE IF w = 3 THEN ((bytes[i] - 224) * 4096) + ((bytes[i + 1] - 128) * 64) + (bytes[i + 2] - 128)
    ELSE ((bytes[i] - 240) * 262144) + ((bytes[i + 1] - 128) * 4096)
         + ((bytes[i + 2] - 128) * 64) + (bytes[i + 3] - 128)

\* Every byte that is no continuation byte leads a sequence of its width, and
\* every continuation byte belongs to the sequence of the lead byte before it.
Utf8Valid(bytes) ==
    \A i \in 1..Len(bytes) :
        IF IsContinuation(bytes[i])
        THEN \E j \in 1..(i - 1) :
                /\ i - j <= 3
                /\ ~IsContinuation(bytes[j])
                /\ Utf8Width(bytes[j]) > i - j
                /\ \A k \in (j + 1)..i : IsContinuation(bytes[k])
        ELSE /\ Utf8Width(bytes[i]) >= 1
             /\ i + Utf8Width(bytes[i]) - 1 <= Len(bytes)
             /\ \A k \in (i + 1)..(i + Utf8Width(bytes[i]) - 1) : IsContinuation(bytes[k])

\* Where the sequences of valid UTF-8 start.
Utf8Starts(bytes) ==
    SelectSeq([i \in 1..Len(bytes) |-> i], LAMBDA i : ~IsContinuation(bytes[i]))

DecodeAt(bytes, starts) ==
    [k \in 1..Len(starts) |-> DecodeChar(bytes, starts[k], Utf8Width(bytes[starts[k]]))]

\* bytes.decode('utf-8'): [ok, str]
DecodeUtf8(bytes) ==
    IF Utf8Valid(bytes) THEN [ok |-> TRUE, str |-> DecodeAt(bytes, Utf8Starts(bytes))]
    ELSE [ok |-> FALSE, str |-> <<>>]

\* The str of the bytes r.val read for a character array: [io, val]
chars_of(r) ==
    IF Utf8Valid(r.val) THEN [io |-> r.io, val |-> DecodeUtf8(r.val).str]
    ELSE [io |-> Raise(r.io, "UnicodeDecodeError"), val |-> <<>>]

\* The characters of an array whose length was read as size
read_n_bytes(size) == chars_of(read_raw(size.io, size.val))

read_char_array(io) ==
    IF io.err # None THEN [io |-> io, val |-> <<>>]
    ELSE read_n_bytes(read_u32(io))

u64_of(r, byteorder) ==
    IF Len(r.val) < 8 THEN [io |-> Raise(r.io, "Truncated"), val |-> 0]
    ELSE [io |-> r.io, val |-> FromBytes(r.val, byteorder)]

\* A read that ends before its 8 bytes fails with Truncated.
read_u64(io) ==
    IF io.err # None THEN [io |-> io, val |-> 0]
    ELSE u64_of(read_raw(io, 8), io.byteorder)

\* ------------------------------------------------------------------- reader

WarnProgram == "SQW program not supported"
WarnDnd == "DND files are not supported"

\* The header and the warnings so far, with the field read last
header_n_dims(prog_name, prog_version, sqw_type, warnings, n_dims) ==
    [io |-> n_dims.io,
     val |-> SqwFileHeader(prog_name, prog_version, sqw_type, n_dims.val),
     warnings |-> warnings]

\* SqwFileType(value) of a value that is no member raises ValueError
header_sqw_type(prog_name, prog_version, warnings, sqw_type) ==
    IF sqw_type.io.err # None \/ sqw_type.val \notin {DND, SQW}
    THEN header_n_dims(prog_name, prog_version, sqw_type.val, warnings,
                       [io |-> Raise(sqw_type.io, "ValueError"), val |-> 0])
    ELSE header_n_dims(prog_name, prog_version, sqw_type.val,
                       IF sqw_type.val # SQW THEN warnings \o <<WarnDnd>> ELSE warnings,
                       read_u32(sqw_type.io))

\* A header check that warns for the name and for the version separately.
header_prog_version_warn_each(prog_name, prog_version) ==
    header_sqw_type(prog_name, prog_version.val,
                    IF prog_version.io.err # None THEN <<>>
                    ELSE (IF prog_name # ProgName THEN <<WarnProgram>> ELSE <<>>)
                         \o (IF prog_version.val # ProgVersion THEN <<WarnProgram>> ELSE <<>>),
                    read_u32(prog_version.io))

header_prog_version(prog_name, prog_version) ==
    header_sqw_type(prog_name, prog_version.val,
                    IF prog_version.io.err = None
                       /\ (prog_name # ProgName \/ prog_version.val # ProgVersion)
                    THEN <<WarnProgram>> ELSE <<>>,
                    read_u32(prog_version.io))

header_prog_name(prog_name) == header_prog_version(prog_name.val, read_f64(prog_name.io))

\* _read_file_header: [io, val, warnings]
read_file_header(io) == header_prog_name(read_char_array(io))

descriptor_locked(block_type, name1, name2, position, size, locked) ==
    [io |-> locked.io,
     val |-> SqwDataBlockDescriptor(block_type, <<name1, name2>>, position, size, locked.val = 1)]

descriptor_size(block_type, name1, name2, position, size) ==
    descriptor_locked(block_type, name1, name2, position, size.val, read_u32(size.io))

descriptor_position(block_type, name1, name2, position) ==
    descriptor_size(block_type, name1, name2, position.val, read_u32(position.io))

descriptor_name2(block_type, name1, name2) ==
    descriptor_position(block_type, name1, name2.val, read_u64(name2.io))

descriptor_name1(block_type, name1) ==
    descriptor_name2(block_type, name1.val, read_char_array(name1.io))

\* SqwDataBlockType(value) of a value that is no member raises ValueError
descriptor_block_type(block_type) ==
    descriptor_name1(block_type.val,
                     read_char_array(IF block_type.val \in SqwDataBlockType THEN block_type.io
                                     ELSE Raise(block_type.io, "ValueError")))

\* _read_data_block_descriptor: [io, val]
read_data_block_descriptor(io) == descriptor_block_type(read_char_array(io))

RECURSIVE read_descriptors(_, _, _)
RECURSIVE descriptor_read(_, _, _)

\* {descriptor.name: descriptor for descriptor in descriptors}, over range(n_blocks)
read_descriptors(io, n_blocks, table) ==
    IF n_blocks = 0 \/ io.err # None THEN [io |-> io, val |-> table]
    ELSE descriptor_read(read_data_block_descriptor(io), n_blocks, table)

descriptor_read(d, n_blocks, table) ==
    read_descriptors(d.io, n_blocks - 1,
                     IF d.io.err = None THEN DictSet(table, d.val.name, d.val) ELSE table)

bat_descriptors(bat_size, n_blocks, r) ==
    [io |-> r.io, val |-> r.val, bat_size |-> bat_size, n_blocks |-> n_blocks]

bat_n_blocks(bat_size, n_blocks) ==
    bat_descriptors(bat_size, n_blocks.val, read_descriptors(n_blocks.io, n_blocks.val, <<>>))

bat_bat_size(bat_size) == bat_n_blocks(bat_size.val, read_u32(bat_size.io))

\* _read_block_allocation_table: [io, val, bat_size, n_blocks]
read_block_allocation_table(io) == bat_bat_size(read_u32(io))


\* ------------------------------------------------------ object array reader

\* A read of n bytes that ends before them fails with Truncated: [io, val]
read_exactly(io, n, r) ==
    IF Len(r.val) < n THEN [io |-> Raise(r.io, "Truncated"), val |-> <<>>] ELSE r

u8_of(r) == [io |-> r.io, val |-> IF r.val = <<>> THEN 0 ELSE r.val[1]]

read_u8(io) ==
    IF io.err # None THEN [io |-> io, val |-> 0]
    ELSE u8_of(read_exactly(io, 1, read_raw(io, 1)))

\* n bytes decoded as UTF-8, with no length before them
read_n_chars(io, n) ==
    IF io.err # None THEN [io |-> io, val |-> <<>>]
    ELSE chars_of(read_exactly(io, n, read_raw(io, n)))

\* The bool of one byte, as the byte write_logical writes for it
logical_of(r) == [io |-> r.io, val |-> IF r.val = <<>> \/ r.val[1] = 0 THEN <<0>> ELSE <<1>>]

read_logical(io) ==
    IF io.err # None THEN [io |-> io, val |-> <<0>>]
    ELSE logical_of(read_exactly(io, 1, read_raw(io, 1)))

array_element_of(r, byteorder) ==
    [io |-> r.io, val |-> IF r.io.err # None THEN F64Zero ELSE PackF64(r.val, byteorder)]

\* One float64 element of read_array
read_array_element(io) ==
    IF io.err # None THEN [io |-> io, val |-> F64Zero]
    ELSE array_element_of(read_exactly(io, 8, read_raw(io, 8)), io.byteorder)

\* The tags _READERS has a reader for.
ReaderTags == {TagChar, TagCell, TagStruct, TagF64, TagLogical}

RECURSIVE Product(_)
Product(shape) == IF shape = <<>> THEN 1 ELSE Head(shape) * Product(Tail(shape))

\* int(np.prod(shape)); the product of no sizes is 1
volume(shape) == Product(shape)

\* What a read that raised leaves in place of its value.
NoObject == [cls |-> "ObjectArray", ty |-> TagLogical, shape |-> <<>>, data |-> <<>>]

no_object(io) == [io |-> io, val |-> NoObject]

RECURSIVE read_elements(_, _, _)
RECURSIVE read_objects(_, _, _, _)
RECURSIVE object_array_onto(_, _)
RECURSIVE single_struct_onto(_, _)

string_of(r) == [io |-> r.io, val |-> String(r.val)]
logical_object_of(r) == [io |-> r.io, val |-> Logical(r.val)]

\* One element of a comprehension of the readers that read no object array:
\* sqw_io.read_u32(), sqw_io.read_n_chars(size),
\* ir.String(sqw_io.read_n_chars(size)), an element of read_array,
\* ir.Logical(sqw_io.read_logical())
read_object(io, what, size) ==
    CASE what = "u32" -> read_u32(io)
      [] what = "chars" -> read_n_chars(io, size)
      [] what = "char" -> string_of(read_n_chars(io, size))
      [] what = "f64" -> read_array_element(io)
      [] what = "logical" -> logical_object_of(read_logical(io))

one_element(r) == [io |-> r.io, val |-> <<r.val>>]

elements_joined(first, r) == [io |-> r.io, val |-> first \o r.val]

\* The rest of the elements, unless one of the first raised
elements_rest(r, what, sizes) ==
    CASE r.io.err # None -> r
      [] OTHER -> elements_joined(r.val, read_elements(r.io, what, sizes))

\* [<one element> for size in sizes], in order, of elements that are no object
\* arrays: the first half of the elements, then the rest from where the first
\* half ended; an exception ends it
read_elements(io, what, sizes) ==
    CASE sizes = <<>> \/ io.err # None -> [io |-> io, val |-> <<>>]
      [] Len(sizes) = 1 -> one_element(read_object(io, what, sizes[1]))
      [] OTHER -> elements_rest(read_elements(io, what, SubSeq(sizes, 1, Len(sizes) \div 2)), what,
                                SubSeq(sizes, (Len(sizes) \div 2) + 1, Len(sizes)))

\* range(n), each turn reading size bytes
Times(n, size) == [i \in 1..n |-> size]

\* [sqw_io.read_u32() for _ in range(n)]
read_range_u32(io, n) == read_elements(io, "u32", Times(n, 4))

\* tuple(sqw_io.read_n_chars(size) for size in field_name_sizes)
read_names(io, sizes) == read_elements(io, "chars", sizes)

\* What an object array starts with: its type tag and its shape: [io, ty, shape]
object_array_header(io, ty, shape) == [io |-> io, ty |-> ty, shape |-> shape]

\* _READERS.get(ty, position), the shape being read
object_array_shape(position, ty, shape) ==
    object_array_header(registry_get(shape.io, ReaderTags, ty, position), ty, shape.val)

object_array_n_dims(position, ty, n_dims) ==
    object_array_shape(position, ty, read_range_u32(n_dims.io, n_dims.val))

\* ir.TypeTag(value) of a value that is no member raises ValueError
object_array_ty(position, ty) ==
    CASE ty.io.err # None -> object_array_header(ty.io, TagLogical, <<>>)
      [] ty.val \notin TypeTag -> object_array_header(Raise(ty.io, "ValueError"), TagLogical, <<>>)
      [] ty.val = TagSerializable -> object_array_header(ty.io, TagSerializable, <<>>)
      [] OTHER -> object_array_n_dims(position, ty.val, read_u8(ty.io))

\* read_object_array from its first byte to the reader found for its type
read_object_array_header(io) == object_array_ty(io.pos, read_u8(io))

\* The names of the fields of a struct: [io, val]
single_struct_sizes(field_name_sizes) == read_names(field_name_sizes.io, field_name_sizes.val)

single_struct_n_fields(n_fields) ==
    single_struct_sizes(read_range_u32(n_fields.io, n_fields.val))

\* _read_single_struct up to the field values
single_struct_names(io) == single_struct_n_fields(read_u32(io))

\* The rest of the objects, unless one of the first raised
objects_rest(r, what, n) ==
    CASE r.io.err # None -> r
      [] OTHER -> read_objects(r.val, r.io, what, n)

\* acc + [<one object> for _ in range(n)], in order, of objects that are
\* object arrays (read_object_array) or structs (_read_single_struct): the
\* first half of them, then the rest from where the first half ended; an
\* exception ends it
read_objects(acc, io, what, n) ==
    CASE n <= 0 \/ io.err # None -> [io |-> io, val |-> acc]
      [] n = 1 /\ what = "cell" -> object_array_onto(acc, read_object_array_header(io))
      [] n = 1 -> single_struct_onto(acc, single_struct_names(io))
      [] OTHER -> objects_rest(read_objects(acc, io, what, n \div 2), what, n - (n \div 2))

\* _read_f64: one element is a list of one ir.F64, any other number of them
\* stays the array of numbers
f64_data(r) ==
    [io |-> r.io, val |-> IF Len(r.val) = 1 THEN <<F64(r.val[1])>> ELSE r.val]

\* The reader of tag ty run on the shape: _read_char_arrays, _read_f64,
\* _read_logical
read_data(io, ty, shape) ==
    CASE ty = TagChar ->
            IF shape = <<>> THEN [io |-> io, val |-> <<String(<<>>)>>]
            ELSE read_elements(io, "char", Times(volume(Tail(shape)), shape[1]))
      [] ty = TagF64 -> f64_data(read_elements(io, "f64", Times(volume(shape), 8)))
      [] ty = TagLogical -> read_elements(io, "logical", Times(volume(shape), 1))

\* ObjectArray(ty=ty, shape=shape, data=data), or CellArray for the cell tag,
\* after the list acc
object_array_made(acc, ty, shape, data) ==
    [io |-> data.io,
     val |-> CASE data.io.err # None -> acc
               [] ty = TagCell -> Append(acc, CellArray(shape, data.val))
               [] OTHER -> Append(acc, ObjectArray(ty, shape, data.val))]

\* read_object_array from the header h on, its value put after the list acc: a
\* serializable is the object array that follows its tag, any other type is
\* read by its reader
object_array_onto(acc, h) ==
    CASE h.io.err # None -> [io |-> h.io, val |-> acc]
      [] h.ty = TagSerializable -> object_array_onto(acc, read_object_array_header(h.io))
      \* _read_cell: [read_object_array(sqw_io) for _ in range(volume(shape))]
      [] h.ty = TagCell ->
           object_array_made(acc, h.ty, h.shape,
                             read_objects(<<>>, h.io, "cell", volume(h.shape)))
      \* _read_struct: [_read_single_struct(sqw_io) for _ in range(volume(shape))]
      [] h.ty = TagStruct ->
           object_array_made(acc, h.ty, h.shape,
                             read_objects(<<>>, h.io, "struct", volume(h.shape)))
      [] OTHER -> object_array_made(acc, h.ty, h.shape, read_data(h.io, h.ty, h.shape))

\* _expect_ty(ir.TypeTag.cell, field_values.ty) and the ir.Struct, after acc
single_struct_made(acc, field_names, field_values) ==
    [io |-> IF field_values.io.err = None /\ field_values.val[1].ty # TagCell
            THEN Raise(field_values.io, "TypeError") ELSE field_values.io,
     val |-> IF field_values.io.err # None \/ field_values.val[1].ty # TagCell THEN acc
             ELSE Append(acc, Struct(field_names, field_values.val[1]))]

\* _read_single_struct from the field names on, its value put after acc
single_struct_onto(acc, field_names) ==
    CASE field_names.io.err # None -> [io |-> field_names.io, val |-> acc]
      [] OTHER -> single_struct_made(acc, field_names.val,
                                     object_array_onto(<<>>, read_object_array_header(field_names.io)))

\* The one object read, or what a read that raised leaves in its place
the_object(r) == [io |-> r.io, val |-> IF r.io.err # None THEN NoObject ELSE r.val[1]]

\* read_object_array: [io, val]
read_object_array(io) == the_object(object_array_onto(<<>>, read_object_array_header(io)))

\* _read_single_struct: [io, val]
read_single_struct(io) == the_object(single_struct_onto(<<>>, single_struct_names(io)))

\* ------------------------------------------------------- raising the blocks

\* The code points of the str literals of the source.
Chars(s) ==
    CASE s = "serial_name" -> <<115, 101, 114, 105, 97, 108, 95, 110, 97, 109, 101>>
      [] s = "version" -> <<118, 101, 114, 115, 105, 111, 110>>
      [] s = "full_filename" -> <<102, 117, 108, 108, 95, 102, 105, 108, 101, 110, 97, 109, 101>>
      [] s = "title" -> <<116, 105, 116, 108, 101>>
      [] s = "nfiles" -> <<110, 102, 105, 108, 101, 115>>
      [] s = "creation_date" -> <<99, 114, 101, 97, 116, 105, 111, 110, 95, 100, 97, 116, 101>>
      [] s = "npix" -> <<110, 112, 105, 120>>
      [] s = "data_range" -> <<100, 97, 116, 97, 95, 114, 97, 110, 103, 101>>
      [] s = "array_dat" -> <<97, 114, 114, 97, 121, 95, 100, 97, 116>>
      [] s = "unique_objects" -> <<117, 110, 105, 113, 117, 101, 95, 111, 98, 106, 101, 99, 116, 115>>
      [] s = "idx" -> <<105, 100, 120>>
      [] s = "name" -> <<110, 97, 109, 101>>
      [] s = "target_name" -> <<116, 97, 114, 103, 101, 116, 95, 110, 97, 109, 101>>
      [] s = "frequency" -> <<102, 114, 101, 113, 117, 101, 110, 99, 121>>
      [] s = "source" -> <<115, 111, 117, 114, 99, 101>>
      [] s = "alatt" -> <<97, 108, 97, 116, 116>>
      [] s = "angdeg" -> <<97, 110, 103, 100, 101, 103>>
      [] s = "efix" -> <<101, 102, 105, 120>>
      [] s = "en" -> <<101, 110>>
      [] s = "angular_is_degree" -> <<97, 110, 103, 117, 108, 97, 114, 95, 105, 115, 95, 100, 101, 103, 114, 101, 101>>
      [] s = "filename" -> <<102, 105, 108, 101, 110, 97, 109, 101>>
      [] s = "filepath" -> <<102, 105, 108, 101, 112, 97, 116, 104>>
      [] s = "run_id" -> <<114, 117, 110, 95, 105, 100>>
      [] s = "emode" -> <<101, 109, 111, 100, 101>>
      [] s = "psi" -> <<112, 115, 105>>
      [] s = "u" -> <<117>>
      [] s = "v" -> <<118>>
      [] s = "omega" -> <<111, 109, 101, 103, 97>>
      [] s = "dpsi" -> <<100, 112, 115, 105>>
      [] s = "gl" -> <<103, 108>>
      [] s = "gs" -> <<103, 115>>
      [] s = "main_header_cl" -> <<109, 97, 105, 110, 95, 104, 101, 97, 100, 101, 114, 95, 99, 108>>
      [] s = "pix_metadata" -> <<112, 105, 120, 95, 109, 101, 116, 97, 100, 97, 116, 97>>
      [] s = "IX_null_inst" -> <<73, 88, 95, 110, 117, 108, 108, 95, 105, 110, 115, 116>>
      [] s = "IX_experiment" -> <<73, 88, 95, 101, 120, 112, 101, 114, 105, 109, 101, 110, 116>>
      [] s = "IX_samp" -> <<73, 88, 95, 115, 97, 109, 112>>
      [] s = "IX_source" -> <<73, 88, 95, 115, 111, 117, 114, 99, 101>>
      [] s = "unique_references_container" -> <<117, 110, 105, 113, 117, 101, 95, 114, 101, 102, 101, 114, 101, 110, 99, 101, 115, 95, 99, 111, 110, 116, 97, 105, 110, 101, 114>>
      [] s = "unique_objects_container" -> <<117, 110, 105, 113, 117, 101, 95, 111, 98, 106, 101, 99, 116, 115, 95, 99, 111, 110, 116, 97, 105, 110, 101, 114>>
      [] s = "dnd_metadata" -> <<100, 110, 100, 95, 109, 101, 116, 97, 100, 97, 116, 97>>
      [] s = "sqomega" -> <<115, 113, 111, 109, 101, 103, 97>>
      [] s = "abc" -> <<97, 98, 99>>
      [] s = "pix" -> <<112, 105, 120>>
      [] s = "metadata" -> <<109, 101, 116, 97, 100, 97, 116, 97>>
      [] s = "data_wrap" -> <<100, 97, 116, 97, 95, 119, 114, 97, 112>>
      [] s = "experiment_info" -> <<101, 120, 112, 101, 114, 105, 109, 101, 110, 116, 95, 105, 110, 102, 111>>
      [] s = "expdata" -> <<101, 120, 112, 100, 97, 116, 97>>
      [] s = "main_header" -> <<109, 97, 105, 110, 95, 104, 101, 97, 100, 101, 114>>
      [] s = "data" -> <<100, 97, 116, 97>>
      [] s = "unknown_cl" -> <<117, 110, 107, 110, 111, 119, 110, 95, 99, 108>>

\* What a step of raising a block ends with: the value, or the exception raised
\* ("AbortParse" or one that _parse_block does not catch).
Parsed(val) == [status |-> "ok", val |-> val]
Failed(exc) == [status |-> exc, val |-> <<>>]

\* isinstance(data, np.ndarray) of the data _read_f64 gave: the array of numbers
\* stays an array unless it has exactly one element
is_ndarray(field) == field.ty = TagF64 /\ Len(field.data) # 1

\* The first pair of zip(field_names, field_values.data, strict=True) whose name
\* is the one asked for; zip raises ValueError when one side ends before the
\* other and the name was not met until then.
get_struct_field(struct, name) ==
    LET n == Min(Len(struct.field_names), Len(struct.field_values.data))
        met == {i \in 1..n : struct.field_names[i] = name}
    IN IF met # {} THEN Parsed(struct.field_values.data[CHOOSE i \in met : \A j \in met : i <= j])
       ELSE IF Len(struct.field_names) # Len(struct.field_values.data) THEN Failed("ValueError")
       ELSE Failed("AbortParse")

\* _get_scalar_struct_field from the field on: [ty, value] of field.data[0]
scalar_of(field) ==
    IF field.status # "ok" THEN field
    ELSE IF (IF field.val.ty = TagChar /\ field.val.shape # <<>> THEN Tail(field.val.shape)
             ELSE field.val.shape) \notin {<<1>>, <<>>}
    THEN Failed("AbortParse")
    ELSE IF field.val.data = <<>> THEN Failed("IndexError")
    ELSE IF field.val.ty = TagStruct THEN Failed("AbortParse")
    \* a cell holds object arrays, which have no attribute value
    ELSE IF field.val.ty = TagCell THEN Failed("AttributeError")
    ELSE Parsed([ty |-> field.val.ty, value |-> field.val.data[1].value])

get_scalar_struct_field(struct, name) == scalar_of(get_struct_field(struct, name))

F64IsInf(v) == v[1] % 128 = 127 /\ v[2] = 240 /\ SubSeq(v, 3, 8) = <<0, 0, 0, 0, 0, 0>>
F64IsNan(v) == v[1] % 128 = 127 /\ v[2] >= 240 /\ ~F64IsInf(v)

\* a == b of two floats: the two zeros are equal, a NaN equals nothing
F64Eq(a, b) ==
    /\ ~F64IsNan(a) /\ ~F64IsNan(b)
    /\ \/ a = b
       \/ SubSeq(a, 2, 8) = SubSeq(F64Zero, 2, 8) /\ SubSeq(b, 2, 8) = SubSeq(F64Zero, 2, 8)
          /\ a[1] % 128 = 0 /\ b[1] % 128 = 0

\* The integer part of the magnitude of a finite double below 2^20.
TruncF64(v) ==
    LET biased == ((v[1] % 128) * 16) + (v[2] \div 16)
        top == 1048576 + ((v[2] % 16) * 65536) + (v[3] * 256) + v[4]
    IN IF biased < 1023 THEN 0
       ELSE IF biased > 1043 THEN top
       ELSE top \div Pow2(1043 - biased)

IsDigits(s) == s # <<>> /\ \A i \in 1..Len(s) : s[i] >= 48 /\ s[i] <= 57

RECURSIVE Decimal(_)
Decimal(s) == IF s = <<>> THEN 0 ELSE (Decimal(SubSeq(s, 1, Len(s) - 1)) * 10) + (s[Len(s)] - 48)

\* int(x) of a scalar field: of a float (inf raises OverflowError, nan
\* ValueError), of a bool, of a str (decimal digits; anything else the blocks
\* carry raises ValueError)
int_of(x) ==
    IF x.status # "ok" THEN x
    ELSE IF x.val.ty = TagF64
    THEN IF F64IsInf(x.val.value) THEN Failed("OverflowError")
         ELSE IF F64IsNan(x.val.value) THEN Failed("ValueError")
         ELSE Parsed(IF x.val.value[1] >= 128 THEN 0 - TruncF64(x.val.value)
                     ELSE TruncF64(x.val.value))
    ELSE IF x.val.ty = TagLogical THEN Parsed(x.val.value[1])
    ELSE IF IsDigits(x.val.value) THEN Parsed(Decimal(x.val.value))
    ELSE Failed("ValueError")

\* "YYYY-MM-DDTHH:MM:SS+00:00"
IsIsoformat(s) ==
    /\ Len(s) = 25
    /\ <<s[5], s[8], s[11], s[14], s[17]>> = <<45, 45, 84, 58, 58>>
    /\ SubSeq(s, 20, 25) = <<43, 48, 48, 58, 48, 48>>
    /\ IsDigits(SubSeq(s, 1, 4) \o SubSeq(s, 6, 7) \o SubSeq(s, 9, 10) \o SubSeq(s, 12, 13)
                \o SubSeq(s, 15, 16) \o SubSeq(s, 18, 19))

\* dateutil's parse of a str in the format isoformat writes; the other strs the
\* blocks carry hold no date (ParserError, a ValueError); what is no str raises
\* TypeError
parse_datetime(x) ==
    IF x.status # "ok" THEN x
    ELSE IF x.val.ty # TagChar THEN Failed("TypeError")
    ELSE IF ~IsIsoformat(x.val.value) THEN Failed("ParserError")
    ELSE Parsed([year |-> Decimal(SubSeq(x.val.value, 1, 4)),
                 month |-> Decimal(SubSeq(x.val.value, 6, 7)),
                 day |-> Decimal(SubSeq(x.val.value, 9, 10)),
                 hour |-> Decimal(SubSeq(x.val.value, 12, 13)),
                 minute |-> Decimal(SubSeq(x.val.value, 15, 16)),
                 second |-> Decimal(SubSeq(x.val.value, 18, 19)),
                 microsecond |-> 0])

\* EnergyMode(x): the member whose value equals x (direct = 1, indirect = 2),
\* ValueError when there is none
EnergyMode(x) ==
    IF x.status # "ok" THEN x
    ELSE IF x.val.ty = TagF64 /\ F64Eq(x.val.value, FloatOfInt(1)) THEN Parsed(1)
    ELSE IF x.val.ty = TagF64 /\ F64Eq(x.val.value, FloatOfInt(2)) THEN Parsed(2)
    ELSE IF x.val.ty = TagLogical /\ x.val.value = <<1>> THEN Parsed(1)
    ELSE Failed("ValueError")

value_of(x) == IF x.status # "ok" THEN x ELSE Parsed(x.val.value)

data_of(field) == IF field.status # "ok" THEN field ELSE Parsed(field.val.data)

\* _parse_pix_metadata_1_0: 'data_range' has to be a numpy array
ndarray_of(field) ==
    IF field.status # "ok" THEN field
    ELSE IF ~is_ndarray(field.val) THEN Failed("AbortParse")
    ELSE Parsed([shape |-> field.val.shape, values |-> field.val.data])

\* _parse_single_ix_experiment_3_0: efix is the array, or (e,) = candidate_efix
\* and e.value
efix_of(field) ==
    IF field.status # "ok" THEN field
    ELSE IF is_ndarray(field.val) THEN Parsed(field.val.data)
    ELSE IF Len(field.val.data) # 1 THEN Failed("ValueError")
    ELSE IF field.val.ty \in {TagStruct, TagCell} THEN Failed("AttributeError")
    ELSE Parsed(field.val.data[1].value)

\* en is the array, or [e.value for e in raw_en]
en_of(field) ==
    IF field.status # "ok" THEN field
    ELSE IF is_ndarray(field.val) THEN Parsed(field.val.data)
    ELSE IF field.val.data # <<>> /\ field.val.ty \in {TagStruct, TagCell} THEN Failed("AttributeError")
    ELSE Parsed([i \in 1..Len(field.val.data) |-> field.val.data[i].value])

\* The keys of _BLOCK_PARSERS.
BlockParsers ==
    << [serial_name |-> Chars("main_header_cl"), version |-> FloatOfInt(2)],
       [serial_name |-> Chars("pix_metadata"), version |-> FloatOfInt(1)],
       [serial_name |-> Chars("IX_null_inst"), version |-> FloatOfInt(2)],
       [serial_name |-> Chars("IX_experiment"), version |-> FloatOfInt(3)],
       [serial_name |-> Chars("IX_samp"), version |-> FloatOfInt(0)],
       [serial_name |-> Chars("IX_source"), version |-> FloatOfInt(2)],
       [serial_name |-> Chars("unique_references_container"), version |-> FloatOfInt(1)],
       [serial_name |-> Chars("unique_objects_container"), version |-> FloatOfInt(1)] >>

\* _get_struct_type_id from the two fields on
struct_type_id(name, version) ==
    IF name.status # "ok" THEN name
    ELSE IF Len(name.val.shape) # 1 THEN Failed("AbortParse")
    ELSE IF version.status # "ok" THEN version
    ELSE IF version.val.shape # <<1>> THEN Failed("AbortParse")
    ELSE IF name.val.data = <<>> \/ version.val.data = <<>> THEN Failed("IndexError")
    ELSE IF name.val.ty # TagChar THEN Failed("AbortParse")
    ELSE IF version.val.ty # TagF64 THEN Failed("AbortParse")
    ELSE Parsed([serial_name |-> name.val.data[1].value, version |-> version.val.data[1].value])

get_struct_type_id(struct) ==
    struct_type_id(get_struct_field(struct, Chars("serial_name")),
                   get_struct_field(struct, Chars("version")))

\* The steps of the parsers, in the order the parser takes them: the field and
\* what is made of it.
Step(name, how) == [name |-> Chars(name), how |-> how]

ParserSteps(key) ==
    CASE key = 1 -> << Step("full_filename", "scalar"), Step("title", "scalar"),
                       Step("nfiles", "int"), Step("creation_date", "datetime") >>
      [] key = 2 -> << Step("data_range", "ndarray"), Step("full_filename", "scalar"),
                       Step("npix", "int") >>
      [] key = 3 -> << Step("source", "block"), Step("name", "scalar") >>
      [] key = 4 -> << Step("array_dat", "runs") >>
      [] key = 5 -> << Step("name", "scalar"), Step("alatt", "data"), Step("angdeg", "data") >>
      [] key = 6 -> << Step("name", "scalar"), Step("target_name", "scalar"),
                       Step("frequency", "scalar") >>
      [] key = 7 -> << Step("unique_objects", "container") >>
      [] key = 8 -> << Step("unique_objects", "field"), Step("idx", "idx") >>

\* _parse_single_ix_experiment_3_0
ExperimentSteps ==
    << Step("efix", "efix"), Step("en", "en"), Step("angular_is_degree", "scalar"),
       Step("filename", "scalar"), Step("filepath", "scalar"), Step("run_id", "int"),
       Step("emode", "EnergyMode"), Step("psi", "scalar"), Step("u", "data"), Step("v", "data"),
       Step("omega", "scalar"), Step("dpsi", "scalar"), Step("gl", "scalar"), Step("gs", "scalar") >>

RECURSIVE try_parse_block(_)
RECURSIVE parse_struct(_, _)
RECURSIVE parse_steps(_, _)
RECURSIVE parse_step(_, _)
RECURSIVE parse_each(_, _, _)
RECURSIVE each_next(_, _, _, _)
RECURSIVE objects_container(_)

\* [<parser>(x) for x in field.data]: the runs of an IX_experiment, or the
\* objects of a container
parse_each(how, data, acc) ==
    IF data = <<>> THEN Parsed(acc)
    ELSE each_next(how, Tail(data), acc,
                   IF how = "runs" THEN parse_steps(Head(data), ExperimentSteps)
                   ELSE try_parse_block(Head(data)))

each_next(how, data, acc, r) ==
    IF r.status # "ok" THEN r ELSE parse_each(how, data, Append(acc, r.val))

\* _parse_unique_references_container_1_0: exactly one object, itself a container
container_of(field) ==
    IF field.status # "ok" THEN field
    ELSE IF Len(field.val.data) # 1 THEN Failed("AbortParse")
    \* an object that is an object array or a str has no field_names
    ELSE IF field.val.ty # TagStruct THEN Failed("AttributeError")
    ELSE objects_container(field.val.data[1])

\* idx as _parse_unique_objects_container_1_0 takes it: the data, and whether
\* it is an array of numbers
idx_of(field) ==
    IF field.status # "ok" THEN field
    ELSE Parsed([array |-> is_ndarray(field.val), data |-> field.val.data])

\* list[k] of a list of n elements: a negative k counts from the end
ListIndex(k, n) == IF k >= 0 /\ k < n THEN k + 1 ELSE IF k < 0 /\ k >= 0 - n THEN n + k + 1 ELSE 0

\* int(i) - 1 of a number of idx
IdxOf(i) == (IF i[1] >= 128 THEN 0 - TruncF64(i) ELSE TruncF64(i)) - 1

\* [parsed_objects[int(i) - 1] for i in idx]: int() of an ir object raises
\* TypeError, of inf OverflowError, of nan ValueError; an index outside the
\* list IndexError
indexed(parsed_objects, idx) ==
    IF parsed_objects.status # "ok" THEN parsed_objects
    ELSE IF idx.data = <<>> THEN Parsed(<<>>)
    ELSE IF ~idx.array THEN Failed("TypeError")
    ELSE LET bad == {i \in 1..Len(idx.data) :
                        \/ F64IsInf(idx.data[i]) \/ F64IsNan(idx.data[i])
                        \/ ListIndex(IdxOf(idx.data[i]), Len(parsed_objects.val)) = 0}
             first == CHOOSE i \in bad : \A j \in bad : i <= j
         IN IF bad = {}
            THEN Parsed([i \in 1..Len(idx.data) |->
                            parsed_objects.val[ListIndex(IdxOf(idx.data[i]), Len(parsed_objects.val))]])
            ELSE IF F64IsInf(idx.data[first]) THEN Failed("OverflowError")
            ELSE IF F64IsNan(idx.data[first]) THEN Failed("ValueError")
            ELSE Failed("IndexError")

each_of(how, field) ==
    IF field.status # "ok" THEN field
    \* the elements of an array of numbers, strs or bools are no structs
    ELSE IF field.val.data # <<>> /\ field.val.ty \notin {TagStruct, TagCell} THEN Failed("AttributeError")
    \* a run that is an object array has no field_names; an object that is a struct no shape
    ELSE IF field.val.data # <<>> /\ how = "runs" /\ field.val.ty = TagCell THEN Failed("AttributeError")
    ELSE IF field.val.data # <<>> /\ how = "blocks" /\ field.val.ty = TagStruct THEN Failed("AttributeError")
    ELSE parse_each(how, field.val.data, <<>>)

block_of(field) == IF field.status # "ok" THEN field ELSE try_parse_block(field.val)

\* _parse_unique_objects_container_1_0 from its two fields on: the objects are
\* parsed once both fields are found
objects_indexed(fields) ==
    IF fields.status # "ok" THEN fields
    ELSE indexed(each_of("blocks", Parsed(fields.val[1])), fields.val[2])

objects_container(struct) == objects_indexed(parse_steps(struct, ParserSteps(8)))

\* One keyword of a parser: the struct's field, and what the parser makes of it
parse_step(struct, step) ==
    CASE step.how = "scalar" -> value_of(get_scalar_struct_field(struct, step.name))
      [] step.how = "int" -> int_of(get_scalar_struct_field(struct, step.name))
      [] step.how = "datetime" -> parse_datetime(get_scalar_struct_field(struct, step.name))
      [] step.how = "EnergyMode" -> EnergyMode(get_scalar_struct_field(struct, step.name))
      [] step.how = "data" -> data_of(get_struct_field(struct, step.name))
      [] step.how = "ndarray" -> ndarray_of(get_struct_field(struct, step.name))
      [] step.how = "efix" -> efix_of(get_struct_field(struct, step.name))
      [] step.how = "en" -> en_of(get_struct_field(struct, step.name))
      [] step.how = "block" -> block_of(get_struct_field(struct, step.name))
      [] step.how = "container" -> container_of(get_struct_field(struct, step.name))
      [] step.how = "field" -> get_struct_field(struct, step.name)
      [] step.how = "idx" -> idx_of(get_struct_field(struct, step.name))
      [] OTHER -> each_of(step.how, get_struct_field(struct, step.name))

steps_joined(first, r) == IF r.status # "ok" THEN r ELSE Parsed(first \o r.val)

one_step(r) == IF r.status # "ok" THEN r ELSE Parsed(<<r.val>>)

steps_rest(struct, r, steps) ==
    IF r.status # "ok" THEN r ELSE steps_joined(r.val, parse_steps(struct, steps))

\* The keywords of a parser one after the other (the first half of them, then
\* the rest); the first exception ends it
parse_steps(struct, steps) ==
    IF steps = <<>> THEN Parsed(<<>>)
    ELSE IF Len(steps) = 1 THEN one_step(parse_step(struct, steps[1]))
    ELSE steps_rest(struct, parse_steps(struct, SubSeq(steps, 1, Len(steps) \div 2)),
                    SubSeq(steps, (Len(steps) \div 2) + 1, Len(steps)))

\* The schema object a parser returns: [cls, fields], fields in the order of the steps
schema_object(key, fields) ==
    IF fields.status # "ok" THEN fields
    ELSE Parsed(CASE key = 1 -> SqwMainHeader(fields.val[1], fields.val[2], fields.val[3], fields.val[4])
                  [] key = 2 -> SqwPixelMetadata(fields.val[2], fields.val[3], fields.val[1])
                  [] key = 4 -> fields.val[1]
                  [] key = 7 -> fields.val[1]
                  [] key = 8 -> fields.val
                  [] OTHER -> [cls |-> BlockParsers[key].serial_name, fields |-> fields.val])

\* _BLOCK_PARSERS[key] of the struct's type id and the parser's run
parse_struct(struct, key) ==
    IF key.status # "ok" THEN key
    ELSE LET known == {k \in 1..Len(BlockParsers) :
                           /\ BlockParsers[k].serial_name = key.val.serial_name
                           /\ F64Eq(BlockParsers[k].version, key.val.version)}
         IN IF known = {} THEN Failed("AbortParse")
            ELSE schema_object(CHOOSE k \in known : TRUE,
                               IF 8 \in known THEN objects_container(struct)
                               ELSE parse_steps(struct, ParserSteps(CHOOSE k \in known : TRUE)))

\* sum(s != 1 for s in struct.field_values.shape) != 1 of _try_parse_block is
\* false: the struct is not taken for a multi-dimensional cell array
cell_shape_guard(struct) ==
    Cardinality({i \in 1..Len(struct.field_values.shape) : struct.field_values.shape[i] # 1}) = 1

\* _try_parse_block: [status, val]
try_parse_block(block) ==
    IF block.shape # <<1>> THEN Failed("AbortParse")
    ELSE IF block.ty # TagStruct THEN Failed("AbortParse")
    ELSE IF ~cell_shape_guard(block.data[1]) THEN Failed("AbortParse")
    ELSE parse_struct(block.data[1], get_struct_type_id(block.data[1]))

WarnParse == "Unable to parse SQW block"

\* A _parse_block that returns the block of an aborted parse without a warning.
block_parsed_silent(block, r) ==
    IF r.status = "ok" THEN [status |-> "ok", val |-> r.val, raw |-> FALSE, warnings |-> <<>>]
    ELSE IF r.status = "AbortParse"
    THEN [status |-> "ok", val |-> block, raw |-> TRUE, warnings |-> <<>>]
    ELSE [status |-> r.status, val |-> <<>>, raw |-> FALSE, warnings |-> <<>>]

\* The end of _parse_block: AbortParse is caught, the block is returned as it
\* was read and a warning given; any other exception leaves _parse_block
block_parsed(block, r) ==
    IF r.status = "ok" THEN [status |-> "ok", val |-> r.val, raw |-> FALSE, warnings |-> <<>>]
    ELSE IF r.status = "AbortParse"
    THEN [status |-> "ok", val |-> block, raw |-> TRUE, warnings |-> <<WarnParse>>]
    ELSE [status |-> r.status, val |-> <<>>, raw |-> FALSE, warnings |-> <<>>]

\* _parse_block: [status, val, raw, warnings]
parse_block(block) ==
    block_parsed(block, IF block.cls = "CellArray" THEN Failed("AbortParse")
                        ELSE try_parse_block(block))

\* --------------------------------------------------------- read_data_block

\* The arguments of read_data_block: name is a tuple of strs (kind "tuple",
\* items the strs) or one str (kind "str", items the one str); level2_name is a
\* str, or None when it is not given.
NameTuple(items) == [kind |-> "tuple", items |-> items]
NameStr(n) == [kind |-> "str", items |-> <<n>>]
Level2(n) == [given |-> TRUE, value |-> n]
NoLevel2 == [given |-> FALSE, value |-> <<>>]

\* A normalization that takes the tuple and drops a level2_name given with it.
normalize_data_block_name_lenient(name, level2_name) ==
    IF name.kind = "tuple" /\ Len(name.items) = 2 THEN Parsed(name.items)
    ELSE IF name.kind = "str" /\ level2_name.given
    THEN Parsed(<<name.items[1], level2_name.value>>)
    ELSE Failed("TypeError")

\* match (name, level2_name): a sequence of two with None, or two strs (a str
\* is no sequence for the match); anything else raises TypeError
normalize_data_block_name(name, level2_name) ==
    IF name.kind = "tuple" /\ Len(name.items) = 2 /\ ~level2_name.given THEN Parsed(name.items)
    ELSE IF name.kind = "str" /\ level2_name.given
    THEN Parsed(<<name.items[1], level2_name.value>>)
    ELSE Failed("TypeError")

\* A float32 array of read_array: the bytes have to be there
pix_array_of(n_rows, n_pixels, r) ==
    [io |-> r.io, val |-> [shape |-> <<n_rows, n_pixels>>]]

pix_block_n_pixels(n_rows, n_pixels) ==
    IF n_pixels.io.err # None THEN [io |-> n_pixels.io, val |-> [shape |-> <<>>]]
    ELSE pix_array_of(n_rows, n_pixels.val,
                      read_exactly(n_pixels.io, 4 * n_rows * n_pixels.val,
                                   read_raw(n_pixels.io, 4 * n_rows * n_pixels.val)))

pix_block_n_rows(n_rows) == pix_block_n_pixels(n_rows.val, read_u64(n_rows.io))

\* _read_pix_block: [io, val]
read_pix_block(io) == pix_block_n_rows(read_u32(io))

\* What a read_data_block call ends with: the exception or the value returned
\* (raw: it is the object array as read), the warnings given, what the
\* exception says of a type tag, and the position the stream is left at.
Returned(status, val, raw, warnings, io) ==
    [status |-> status, val |-> val, raw |-> raw, warnings |-> warnings,
     note |-> io.note, pos |-> io.pos]

\* return _parse_block(...)
block_returned(io, r) == Returned(r.status, r.val, r.raw, r.warnings, io)

\* read_data_block of a regular block, the object array being read
regular_block_read(r) ==
    IF r.io.err # None THEN Returned(r.io.err, <<>>, FALSE, <<>>, r.io)
    ELSE block_returned(r.io, parse_block(r.val))

pix_block_read(r) ==
    IF r.io.err # None THEN Returned(r.io.err, <<>>, FALSE, <<>>, r.io)
    ELSE Returned("ok", r.val, FALSE, <<>>, r.io)

\* read_data_block after the seek
data_block_at(io, block_descriptor) ==
    CASE block_descriptor.block_type = regular -> regular_block_read(read_object_array(io))
      [] block_descriptor.block_type = pix -> pix_block_read(read_pix_block(io))
      [] OTHER -> Returned("NotImplementedError", <<>>, FALSE, <<>>, io)

\* A read_data_block that seeks to the start of the stream before it looks the
\* name up.
data_block_named_seek_first(table, io, block_name) ==
    IF block_name.status # "ok" THEN Returned(block_name.status, <<>>, FALSE, <<>>, io)
    ELSE IF ~DictHas(table, block_name.val)
    THEN Returned("KeyError", <<>>, FALSE, <<>>, seek(io, 0))
    ELSE data_block_at(seek(io, DictGet(table, block_name.val).position),
                       DictGet(table, block_name.val))

\* read_data_block once the name is normalized: the lookup, then the seek
data_block_named(table, io, block_name) ==
    IF block_name.status # "ok" THEN Returned(block_name.status, <<>>, FALSE, <<>>, io)
    ELSE IF ~DictHas(table, block_name.val) THEN Returned("KeyError", <<>>, FALSE, <<>>, io)
    ELSE data_block_at(seek(io, DictGet(table, block_name.val).position),
                       DictGet(table, block_name.val))

\* Sqw.read_data_block(name, level2_name) on a handle with this block
\* allocation table and stream
read_data_block(table, io, name, level2_name) ==
    data_block_named(table, io, normalize_data_block_name(name, level2_name))

\* -------------------------------------------------------------------- state

VARIABLES
    file,      \* the content of the BytesIO the caller holds
    fpos,      \* its position
    builder,   \* the SqwBuilder
    created,   \* what create() did
    sqw,       \* the handle Sqw.open gave
    wrapper,   \* the LowLevelSqw a caller constructed
    foreign,   \* the file another program wrote into the stream
    call,      \* the last read_data_block call on the handle
    reuse      \* the calls made on the builder after its first create()

vars == <<file, fpos, builder, created, sqw, wrapper, foreign, call, reuse>>

\* The titles build() is called with: "" and "my title".
Titles == {<<>>, <<109, 121, 32, 116, 105, 116, 108, 101>>}

\* The byteorder arguments of build().
BuildByteorders == {"native", little, big}

\* The byteorder arguments of open() and of LowLevelSqw().
OpenByteorders == {None, little, big}

\* The bytes a caller-made stream is made of.
StreamBytes == {0, 1, 6}

RECURSIVE SeqsUpTo(_, _)
\* The sequences over S of length 1..n.
SeqsUpTo(S, n) ==
    IF n = 0 THEN {}
    ELSE LET shorter == SeqsUpTo(S, n - 1)
         IN {<<x>> : x \in S} \cup shorter \cup {Append(t, x) : t \in shorter, x \in S}

\* The positions a caller seeks to.
MaxSeek == 1

NoBuilder ==
    [state |-> "none", requested |-> None, byteorder |-> None, title |-> <<>>, n_dim |-> 0,
     data_blocks |-> <<>>, pix_placeholder |-> NoPixPlaceholder, expdata |-> <<>>,
     ndnd |-> 0, raised |-> None,
     \* the names of the blocks in the order the calls registered them
     registered |-> <<>>]

NotCreated ==
    [status |-> "none", start |-> 0, now |-> PlaceholderDate,
     file_header |-> SqwFileHeader(<<>>, F64Zero, 0, 0),
     block_buffers |-> <<>>, block_descriptors |-> <<>>, bat_buffer |-> <<>>,
     provisional |-> <<>>, bat_offset |-> 0, handle_table |-> <<>>]

NotOpened ==
    [status |-> "none", requested |-> None, start |-> 0, byteorder |-> None,
     file_header |-> SqwFileHeader(<<>>, F64Zero, 0, 0),
     block_allocation_table |-> <<>>, warnings |-> <<>>]

NotWrapped ==
    [status |-> "none", requested |-> None, byteorder |-> None, pos_before |-> 0,
     pos_after |-> 0, nread |-> 0]

\* No file of another program is in the stream.
NoForeign == [kind |-> "none"]

\* read_data_block has not been called.
NoCall == [status |-> "none"]

\* create() has not been entered.
NotReused == [creates |-> 0, calls |-> 0, first |-> <<>>, succeeded |-> FALSE]

Init ==
    /\ file = <<>>
    /\ fpos = 0
    /\ builder = NoBuilder
    /\ created = NotCreated
    /\ sqw = NotOpened
    /\ wrapper = NotWrapped
    /\ foreign = NoForeign
    /\ call = NoCall
    /\ reuse = NotReused

Untouched == sqw.status = "none" /\ wrapper.status = "none"

\* The caller makes a stream of its own bytes: BytesIO(bytes).
NewStream(bytes) ==
    /\ builder.state = "none" /\ file = <<>> /\ fpos = 0 /\ Untouched
    /\ file' = bytes
    /\ UNCHANGED <<fpos, builder, created, sqw, wrapper, foreign, call, reuse>>

\* The caller's buffer.seek(p).
Seek(p) ==
    /\ Untouched
    /\ builder.state = "built" => created.status # "none"
    \* a written file is rewound to where it starts
    /\ created.status # "none" => p = created.start
    /\ p # fpos
    /\ fpos' = p
    /\ UNCHANGED <<file, builder, created, sqw, wrapper, foreign, call, reuse>>

\* Sqw.build(BytesIO(), title=title, byteorder=byteorder)
Build(title, byteorder) ==
    /\ builder.state = "none" /\ file = <<>> /\ Untouched
    /\ LET bo == parse(byteorder)
           \* self._full_filename of an in-memory sink
           full_filename == <<>>
       IN builder' =
            IF bo.err # None
            THEN [NoBuilder EXCEPT !.state = bo.err, !.requested = byteorder]
            ELSE [NoBuilder EXCEPT
                    !.state = "built", !.requested = byteorder, !.byteorder = bo.value,
                    !.title = title,
                    !.registered = <<NameMainHeader>>,
                    !.data_blocks = << Field(NameMainHeader,
                                             SqwMainHeader(full_filename, title, 0, PlaceholderDate)) >>]
    /\ UNCHANGED <<file, fpos, created, sqw, wrapper, foreign, call, reuse>>

\* register_pixel_data with the check for a registered placeholder made after
\* the dimension count is stored.
register_pixel_data_late_check(b, n_pixels, n_dims, rows) ==
    IF b.pix_placeholder.set
    THEN [b EXCEPT !.raised = "RuntimeError", !.n_dim = n_dims]
    ELSE [b EXCEPT
            !.raised = None,
            !.n_dim = n_dims,
            !.expdata = <<>>,
            !.data_blocks =
                DictSet(DictSet(b.data_blocks, NameExpdata, SqwMultiIXExperiment(<<>>)),
                        NamePixMetadata,
                        SqwPixelMetadata(<<>>, n_pixels, InitialDataRange(rows))),
            !.pix_placeholder = PixPlaceholder(n_pixels, rows),
            !.registered = @ \o <<NameExpdata, NamePixMetadata, NamePixDataWrap>>]

\* SqwBuilder.register_pixel_data(n_pixels=..., n_dims=..., experiments=[], rows=...)
\* on the builder b; rows is len(rows). raised is the exception the call ended with.
register_pixel_data(b, n_pixels, n_dims, rows) ==
    IF b.pix_placeholder.set
    THEN [b EXCEPT !.raised = "RuntimeError"]
    ELSE [b EXCEPT
            !.raised = None,
            !.n_dim = n_dims,
            !.expdata = <<>>,
            !.data_blocks =
                DictSet(DictSet(b.data_blocks, NameExpdata, SqwMultiIXExperiment(<<>>)),
                        NamePixMetadata,
                        SqwPixelMetadata(<<>>, n_pixels, InitialDataRange(rows))),
            !.pix_placeholder = PixPlaceholder(n_pixels, rows),
            !.registered = @ \o <<NameExpdata, NamePixMetadata, NamePixDataWrap>>]

\* builder.register_pixel_data(...) before create()
RegisterPixelData(n_pixels, n_dims, rows) ==
    /\ builder.state = "built" /\ created.status = "none"
    /\ builder' = register_pixel_data(builder, n_pixels, n_dims, rows)
    /\ UNCHANGED <<file, fpos, created, sqw, wrapper, foreign, call, reuse>>

\* SqwBuilder.add_dnd_metadata(SqwDndMetadata(axes=..., proj=..., creation_date=...))
\* on the builder b
add_dnd_metadata(b, impl) ==
    [b EXCEPT
       !.raised = None,
       !.ndnd = @ + 1,
       !.registered = IF DictHas(b.data_blocks, NameDndMetadata) THEN @
                      ELSE Append(@, NameDndMetadata),
       !.data_blocks = DictSet(@, NameDndMetadata, SqwDndMetadata(impl, impl, PlaceholderDate))]

\* builder.add_dnd_metadata(...) before create()
AddDndMetadata(impl) ==
    /\ builder.state = "built" /\ created.status = "none"
    /\ builder.ndnd < MaxDnd
    /\ builder' = add_dnd_metadata(builder, impl)
    /\ UNCHANGED <<file, fpos, created, sqw, wrapper, foreign, call, reuse>>

\* What create() leaves behind when it raises err after the header is written
create_failed(err, start, now, file_header, io) ==
    [io |-> io,
     created |-> [NotCreated EXCEPT !.status = err, !.start = start, !.now = now,
                                    !.file_header = file_header]]

\* The end of create(): io is the stream after the blocks are written
create_done(start, now, file_header, bat_offset, blocks, bat, io) ==
    IF io.err # None THEN create_failed(io.err, start, now, file_header, io)
    ELSE [io |-> io,
          created |-> [status |-> "ok", start |-> start, now |-> now,
                       file_header |-> file_header,
                       block_buffers |-> blocks.buffers, block_descriptors |-> bat.descriptors,
                       bat_buffer |-> bat.buffer, provisional |-> bat.provisional,
                       bat_offset |-> bat_offset,
                       \* Sqw(sqw_io=sqw_io, file_header=file_header, block_allocation_table={})
                       handle_table |-> <<>>]]

\* create() from the block allocation table on: the table, then the blocks
create_write(start, now, file_header, io, blocks, bat, ph) ==
    IF bat.err # None THEN create_failed(bat.err, start, now, file_header, io)
    ELSE create_done(start, now, file_header, io.pos, blocks, bat,
                     write_blocks(write_raw(io, bat.buffer), blocks.buffers, bat.descriptors, ph))

\* create() from the serialized blocks on
create_table(start, now, file_header, io, blocks, b) ==
    IF io.err # None THEN create_failed(io.err, start, now, file_header, io)
    ELSE IF blocks.err # None THEN create_failed(blocks.err, start, now, file_header, io)
    ELSE create_write(start, now, file_header, io, blocks,
                      serialize_block_allocation_table(b.byteorder, blocks.descriptors, io.pos),
                      b.pix_placeholder)

\* SqwBuilder.create on the stream sqw_io wraps: [io, created]
create(b, sqw_io, now) ==
    create_table(sqw_io.pos, now, make_file_header(b),
                 write_file_header(sqw_io, make_file_header(b)),
                 serialize_data_blocks(b, now), b)

CreateResult(r) ==
    /\ file' = r.io.buf
    /\ fpos' = r.io.pos
    /\ created' = r.created

\* with builder.create(): pass, when datetime.now() is now
Create(now) ==
    /\ builder.state = "built" /\ created.status = "none"
    /\ CreateResult(create(builder,
                           LowLevelSqw(file, fpos,
                                       deduce_byteorder(file, fpos, builder.byteorder).byteorder),
                           now))
    \* raised is what the last call on the builder ended with
    /\ builder' = [builder EXCEPT !.raised = None]
    /\ UNCHANGED <<sqw, wrapper, foreign, call, reuse>>

\* The handle of Sqw.open, or the exception it ended with
opened(byteorder, start, d, file_header, table) ==
    [pos |-> table.io.pos,
     sqw |-> IF table.io.err # None
             THEN [NotOpened EXCEPT !.status = table.io.err, !.requested = byteorder,
                                    !.start = start, !.warnings = file_header.warnings]
             ELSE [status |-> "ok", requested |-> byteorder, start |-> start,
                   byteorder |-> d.byteorder, file_header |-> file_header.val,
                   block_allocation_table |-> table.val,
                   warnings |-> file_header.warnings]]

open_table(byteorder, start, d, file_header) ==
    opened(byteorder, start, d, file_header, read_block_allocation_table(file_header.io))

\* Sqw.open from the byte order d on
open_header(byteorder, buf, start, d) ==
    open_table(byteorder, start, d, read_file_header(LowLevelSqw(buf, d.pos, d.byteorder)))

open(buf, pos, byteorder) == open_header(byteorder, buf, pos, deduce_byteorder(buf, pos, byteorder))

OpenResult(r) ==
    /\ fpos' = r.pos
    /\ sqw' = r.sqw

\* with Sqw.open(buffer, byteorder=byteorder) as sqw
Open(byteorder) ==
    /\ Untouched
    \* a written file is opened from where it starts
    /\ created.status # "none" => fpos = created.start
    /\ builder.state = "built" => created.status # "none"
    /\ OpenResult(open(file, fpos, byteorder))
    /\ UNCHANGED <<file, builder, created, wrapper, foreign, call, reuse>>

WrapResult(byteorder, d) ==
    /\ fpos' = d.pos
    /\ wrapper' = [status |-> "ok", requested |-> byteorder, byteorder |-> d.byteorder,
                    pos_before |-> fpos, pos_after |-> d.pos, nread |-> d.nread]

\* LowLevelSqw(buffer, path=None, byteorder=byteorder)
Wrap(byteorder) ==
    /\ Untouched
    \* on a stream of the caller's own bytes
    /\ builder.state = "none"
    /\ WrapResult(byteorder, deduce_byteorder(file, fpos, byteorder))
    /\ UNCHANGED <<file, builder, created, sqw, foreign, call, reuse>>

Next ==
    \/ \E bytes \in SeqsUpTo(StreamBytes, MaxStream) : NewStream(bytes)
    \/ \E p \in 0..MaxSeek : Seek(p)
    \/ \E title \in Titles, byteorder \in BuildByteorders : Build(title, byteorder)
    \/ \E n_pixels \in 0..MaxPixels, n_dims \in 0..MaxDims,
          rows \in {DefaultPixRows} \cup 0..MaxRows : RegisterPixelData(n_pixels, n_dims, rows)
    \/ \E impl \in {"stock", "custom"} : AddDndMetadata(impl)
    \/ \E now \in Clock : Create(now)
    \/ \E byteorder \in OpenByteorders : Open(byteorder)
    \/ \E byteorder \in OpenByteorders : Wrap(byteorder)

Spec == Init /\ [][Next]_vars

\* ------------------------------------------------ the builder after create()

\* The calls made on a builder after its first create(), create() not counted.
MaxLater == 2

\* The create() calls made after the first.
MaxCreates == 1

\* One more call on the builder whose create() has been entered: the file as it
\* was before the first of them, and whether this one returned without raising.
later(is_create, succeeded) ==
    [creates |-> reuse.creates + (IF is_create THEN 1 ELSE 0),
     calls |-> reuse.calls + (IF is_create THEN 0 ELSE 1),
     first |-> IF reuse.creates + reuse.calls = 0 THEN file ELSE reuse.first,
     succeeded |-> succeeded]

\* builder.register_pixel_data(...) after create(): nothing in the builder
\* tells the calls before create() from those after it.
RegisterPixelDataLater(n_pixels, n_dims, rows) ==
    /\ created.status = "ok" /\ reuse.calls < MaxLater
    /\ builder' = register_pixel_data(builder, n_pixels, n_dims, rows)
    /\ reuse' = later(FALSE, ~builder.pix_placeholder.set)
    /\ UNCHANGED <<file, fpos, created, sqw, wrapper, foreign, call>>

\* builder.add_dnd_metadata(...) after create()
AddDndMetadataLater(impl) ==
    /\ created.status = "ok" /\ reuse.calls < MaxLater
    /\ builder.ndnd < MaxDnd
    /\ builder' = add_dnd_metadata(builder, impl)
    /\ reuse' = later(FALSE, TRUE)
    /\ UNCHANGED <<file, fpos, created, sqw, wrapper, foreign, call>>

CreateAgainResult(r) ==
    /\ CreateResult(r)
    /\ reuse' = later(TRUE, r.created.status = "ok")

\* with builder.create(): pass, once more on the same builder: the sink is the
\* BytesIO the builder was made with, at the position the last create() left
CreateAgain(now) ==
    /\ created.status = "ok" /\ reuse.creates < MaxCreates
    /\ CreateAgainResult(create(builder,
                                LowLevelSqw(file, fpos,
                                            deduce_byteorder(file, fpos, builder.byteorder).byteorder),
                                now))
    /\ builder' = [builder EXCEPT !.raised = None]
    /\ UNCHANGED <<sqw, wrapper, foreign, call>>

\* The registrations of a reused builder differ in n_pixels and in n_dims (none
\* or the most); the rows are the default rows.
NextReuse ==
    \/ \E title \in Titles, byteorder \in Byteorder : Build(title, byteorder)
    \/ \E n_pixels \in 0..MaxPixels, n_dims \in {0, MaxDims} :
          RegisterPixelData(n_pixels, n_dims, DefaultPixRows)
    \/ \E impl \in {"stock", "custom"} : AddDndMetadata(impl)
    \/ \E now \in Clock : Create(now)
    \/ \E n_pixels \in 0..MaxPixels, n_dims \in {0, MaxDims} :
          RegisterPixelDataLater(n_pixels, n_dims, DefaultPixRows)
    \/ \E impl \in {"stock", "custom"} : AddDndMetadataLater(impl)
    \/ \E now \in Clock : CreateAgain(now)

SpecReuse == Init /\ [][NextReuse]_vars

\* ------------------------------------------- files of other programs, read

\* The fields of a struct as the reference implementation writes them: a str is
\* a char array as long as the str, a number an f64 array of one element.
CharField(s) == ObjectArray(TagChar, <<Len(s)>>, <<String(s)>>)
NumField(n) == ObjectArray(TagF64, <<1>>, <<F64(FloatOfInt(n))>>)
ArrayField(shape, ns) == ObjectArray(TagF64, shape, [i \in 1..Len(ns) |-> F64(FloatOfInt(ns[i]))])
BoolField(b) == ObjectArray(TagLogical, <<1>>, <<Logical(IF b THEN <<1>> ELSE <<0>>)>>)

\* A struct of the named fields, its values an (n, 1) cell array
StructOf(names, values) ==
    Struct([i \in 1..Len(names) |-> Chars(names[i])], CellArray(<<Len(values), 1>>, values))

\* The main header of a file; nfiles is the field as the file has it
MainHeaderBlock(nfiles) ==
    to_object_array(StructOf(
        <<"serial_name", "version", "full_filename", "title", "nfiles", "creation_date">>,
        << CharField(Chars("main_header_cl")), NumField(2), CharField(<<>>), CharField(Chars("abc")),
           nfiles, CharField(isoformat(PlaceholderDate)) >>))

\* A struct of a type no parser is registered for
UnknownBlock ==
    to_object_array(StructOf(<<"serial_name", "version", "title">>,
                             << CharField(Chars("unknown_cl")), NumField(1), CharField(Chars("abc")) >>))

\* One run of an IX_experiment; emode is the number the file has
RunStruct(emode) ==
    StructOf(<<"filename", "filepath", "run_id", "efix", "emode", "en", "psi", "u", "v", "omega",
               "dpsi", "gl", "gs", "angular_is_degree">>,
             << CharField(Chars("abc")), CharField(<<>>), NumField(1), NumField(2), NumField(emode),
                ArrayField(<<2>>, <<0, 1>>), NumField(0), ArrayField(<<3>>, <<1, 0, 0>>),
                ArrayField(<<3>>, <<0, 1, 0>>), NumField(0), NumField(0), NumField(0), NumField(0),
                BoolField(TRUE) >>)

ExperimentBlock(emode) ==
    to_object_array(StructOf(<<"serial_name", "version", "array_dat">>,
                             << CharField(Chars("IX_experiment")), NumField(3),
                                ObjectArray(TagStruct, <<1>>, <<RunStruct(emode)>>) >>))

\* A unique_references_container of the objects, each referred to once
ContainerBlock(objects) ==
    to_object_array(StructOf(
        <<"serial_name", "version", "unique_objects">>,
        << CharField(Chars("unique_references_container")), NumField(1),
           ObjectArray(TagStruct, <<1>>,
                       << StructOf(<<"unique_objects", "idx">>,
                                   << CellArray(<<Len(objects)>>, objects),
                                      ArrayField(<<2>>, <<1, Len(objects)>>) >>) >>) >>))

\* The regular blocks the files hold, by what is particular about them.
BlockLabels ==
    {"main_header", "unknown", "missing_field", "mistyped_field", "count_mismatch", "experiment",
     "enum_out_of_range", "container", "nested_unknown", "nested_failing", "cell_block",
     "pix_metadata"}

ForeignBlock(label) ==
    CASE label = "main_header" -> MainHeaderBlock(NumField(3))
      [] label = "unknown" -> UnknownBlock
      [] label = "missing_field" ->
           to_object_array(StructOf(<<"serial_name", "version", "full_filename", "title">>,
                                    << CharField(Chars("main_header_cl")), NumField(2),
                                       CharField(<<>>), CharField(Chars("abc")) >>))
      [] label = "mistyped_field" -> MainHeaderBlock(CharField(Chars("abc")))
      \* one field name more than field values
      [] label = "count_mismatch" ->
           to_object_array(Struct(
               [i \in 1..5 |-> Chars(<<"serial_name", "version", "full_filename", "title", "nfiles">>[i])],
               CellArray(<<4, 1>>, << CharField(Chars("main_header_cl")), NumField(2),
                                      CharField(<<>>), CharField(Chars("abc")) >>)))
      [] label = "experiment" -> ExperimentBlock(1)
      [] label = "enum_out_of_range" -> ExperimentBlock(7)
      [] label = "container" -> ContainerBlock(<<MainHeaderBlock(NumField(3))>>)
      [] label = "nested_unknown" -> ContainerBlock(<<MainHeaderBlock(NumField(3)), UnknownBlock>>)
      [] label = "nested_failing" -> ContainerBlock(<<MainHeaderBlock(CharField(Chars("abc")))>>)
      [] label = "cell_block" -> CellArray(<<1>>, <<NumField(1)>>)
      [] label = "pix_metadata" ->
           to_object_array(StructOf(<<"serial_name", "version", "full_filename", "npix", "data_range">>,
                                    << CharField(Chars("pix_metadata")), NumField(1), CharField(<<>>),
                                       NumField(13), ArrayField(<<1, 2>>, <<0, 1>>) >>))

\* Where a file ends: "none" for a whole file, "header" right after the file
\* header, or in the middle of one of the header's fields.
Cuts == {"none", "header", "prog_name", "prog_version", "sqw_type"}

CutAt(cut, prog_name, whole) ==
    CASE cut = "none" -> whole
      [] cut = "header" -> 4 + Len(prog_name) + 8 + 4 + 4
      [] cut = "prog_name" -> 4 + 2
      [] cut = "prog_version" -> 4 + Len(prog_name) + 3
      [] cut = "sqw_type" -> 4 + Len(prog_name) + 8 + 2

\* The bytes of the one block of a file: a regular block's object array, or an
\* object array of one element that starts with the byte tag
foreign_payload(f) ==
    CASE f.kind = "block" ->
           write_object_array(LowLevelSqw(<<>>, 0, f.byteorder), ForeignBlock(f.label)).buf
      [] f.kind = "tag" -> <<f.tag, 1>> \o ToBytes(1, 4, f.byteorder) \o F64Zero
      [] OTHER -> <<>>

foreign_descriptors(f, payload) ==
    IF f.kind = "header" THEN <<>>
    ELSE << Field(NameMainHeader,
                  SqwDataBlockDescriptor(regular, NameMainHeader, 0, Len(payload), FALSE)) >>

foreign_cut(f, bytes) == SubSeq(bytes, 1, Min(Len(bytes), CutAt(f.cut, f.prog_name, Len(bytes))))

foreign_table(f, io, payload) ==
    foreign_cut(f, io.buf
                   \o serialize_block_allocation_table(f.byteorder, foreign_descriptors(f, payload),
                                                       io.pos).buffer
                   \o payload)

\* The bytes of the file f describes: the file header, the block allocation
\* table, the block
foreign_bytes(f) ==
    foreign_table(f,
                  write_file_header(LowLevelSqw(<<>>, 0, f.byteorder),
                                    SqwFileHeader(f.prog_name, f.prog_version, SQW, f.n_dims)),
                  foreign_payload(f))

ForeignFile(kind, byteorder, prog_name, prog_version, label, tag, cut) ==
    [kind |-> kind, byteorder |-> byteorder, prog_name |-> prog_name,
     prog_version |-> prog_version, n_dims |-> MaxDims, label |-> label, tag |-> tag, cut |-> cut]

\* The programs that wrote the files: Horace 4.0, and others.
ProgNames == {ProgName, Chars("sqomega")}
ProgVersions == {ProgVersion, FloatOfInt(8)}

\* The files of other programs: headers of either program with a table of no
\* blocks, whole or cut short; files of one regular block; files whose block
\* starts with any byte for a type tag.
ForeignFiles ==
    {ForeignFile("header", bo, n, v, "none", 0, cut) :
        bo \in Byteorder, n \in ProgNames, v \in ProgVersions, cut \in Cuts}
    \cup {ForeignFile("block", bo, ProgName, ProgVersion, label, 0, "none") :
            bo \in Byteorder, label \in BlockLabels}
    \cup {ForeignFile("block", bo, n, v, "main_header", 0, "none") :
            bo \in Byteorder, n \in ProgNames, v \in ProgVersions}
    \cup {ForeignFile("tag", little, ProgName, ProgVersion, "none", tag, "none") : tag \in 0..255}

\* The caller holds a stream with the file f in it: BytesIO(bytes)
Foreign(f) ==
    /\ builder.state = "none" /\ file = <<>> /\ fpos = 0 /\ Untouched
    /\ foreign.kind = "none"
    /\ file' = foreign_bytes(f)
    /\ foreign' = f
    /\ UNCHANGED <<fpos, builder, created, sqw, wrapper, call, reuse>>

\* The names read_data_block is asked for.
BlockNames == {NameMainHeader, NameExpdata, NamePixMetadata, NamePixDataWrap, NameDndMetadata}

\* The forms the arguments take: a tuple of two, two strs, a tuple and a str,
\* one str alone, a tuple of three.
NameForms ==
    UNION {{ <<NameTuple(n), NoLevel2>>, <<NameStr(n[1]), Level2(n[2])>>,
             <<NameTuple(n), Level2(n[2])>>, <<NameStr(n[2]), NoLevel2>>,
             <<NameTuple(<<n[1], n[2], n[2]>>), NoLevel2>> } : n \in BlockNames}

ReadResult(name, level2_name, r) ==
    /\ fpos' = r.pos
    /\ call' = [status |-> r.status, name |-> name, level2_name |-> level2_name, val |-> r.val,
                raw |-> r.raw, warnings |-> r.warnings, note |-> r.note,
                pos_before |-> fpos, pos_after |-> r.pos]

\* sqw.read_data_block(name, level2_name) on the handle Sqw.open gave
ReadDataBlock(name, level2_name) ==
    /\ sqw.status = "ok" /\ call.status = "none"
    /\ ReadResult(name, level2_name,
                  read_data_block(sqw.block_allocation_table, LowLevelSqw(file, fpos, sqw.byteorder),
                                  name, level2_name))
    /\ UNCHANGED <<file, builder, created, sqw, wrapper, foreign, reuse>>

NextRead ==
    \/ \E f \in ForeignFiles : Foreign(f)
    \/ \E title \in Titles, byteorder \in Byteorder : Build(title, byteorder)
    \/ \E n_pixels \in 0..MaxPixels, rows \in {DefaultPixRows, MaxRows} :
          RegisterPixelData(n_pixels, MaxDims, rows)
    \/ \E now \in Clock : Create(now)
    \/ Seek(0)
    \/ Open(None)
    \/ \E form \in NameForms : ReadDataBlock(form[1], form[2])

SpecRead == Init /\ [][NextRead]_vars

\* ------------------------------------------------- the codec on its own
\* write_object_array, read_object_array and _parse_block applied to object
\* arrays a caller builds.

\* The strings of the object arrays have at most MaxChars characters.
MaxChars == 2
\* f64 and logical arrays, cells and structs have at most MaxElems elements.
MaxElems == 2
\* The idx of a container has at most MaxIdx entries.
MaxIdx == 2

\* The characters of the strings: "a" and "é", one and two UTF-8 bytes.
CodecAlphabet == {97, 233}

CodecStrings == UNION {[1..n -> CodecAlphabet] : n \in 0..MaxChars}

\* Char arrays of one string: of the shape (L,) with L the number of UTF-8
\* bytes, and of the shape (1,) serialize_to_ir gives a field.
CharArrays ==
    {ObjectArray(TagChar, <<Len(EncodeUtf8(s))>>, <<String(s)>>) : s \in CodecStrings}
    \cup {ObjectArray(TagChar, <<1>>, <<String(s)>>) : s \in CodecStrings}

\* lists of ir.F64 with their shape (n,)
F64Arrays ==
    {ObjectArray(TagF64, <<Len(d)>>, d) :
        d \in UNION {[1..n -> {F64(F64Zero), F64(FloatOfInt(2))}] : n \in 0..MaxElems}}

LogicalArrays ==
    {ObjectArray(TagLogical, <<Len(d)>>, d) :
        d \in UNION {[1..n -> {Logical(<<0>>), Logical(<<1>>)}] : n \in 0..MaxElems}}

\* The object arrays the cells and structs hold.
NestedArrays ==
    { CharField(<<97, 233>>), NumField(2), BoolField(TRUE),
      ObjectArray(TagChar, <<1>>, <<String(<<97, 97>>)>>),
      ArrayField(<<2>>, <<0, 2>>) }

CellArrays ==
    {CellArray(<<Len(d), 1>>, d) : d \in UNION {[1..n -> NestedArrays] : n \in 1..MaxElems}}

\* The names of the fields of the structs: "a" and "é".
CodecNames == {<<97>>, <<233>>}

StructArrays ==
    UNION {{ObjectArray(TagStruct, <<1>>, <<Struct(names, c)>>) :
               names \in [1..Len(c.data) -> CodecNames]} : c \in CellArrays}

\* Object arrays of the tags of ir.TypeTag no writer is registered for.
UnwritableArrays ==
    {ObjectArray(ty, <<1>>, <<[cls |-> "Object", ty |-> ty, value |-> <<0>>]>>) :
        ty \in TypeTag \ (WriterTags \cup {TagSerializable})}

\* What serialize_to_ir makes of a schema object of n fields, the fields
\* strings of one character.
Lowered(n) ==
    to_object_array(serialize_to_ir([i \in 1..n |-> Field(<<96 + i>>, String(<<96 + i>>))]))

LoweredStructs == {Lowered(n) : n \in 1..(MaxElems + 1)}

\* A unique_references_container of two main headers, of 1 and of 2 files,
\* with the idx given.
Container(idx) ==
    to_object_array(StructOf(
        <<"serial_name", "version", "unique_objects">>,
        << CharField(Chars("unique_references_container")), NumField(1),
           ObjectArray(TagStruct, <<1>>,
                       << StructOf(<<"unique_objects", "idx">>,
                                   << CellArray(<<2>>, <<MainHeaderBlock(NumField(1)),
                                                         MainHeaderBlock(NumField(2))>>),
                                      ArrayField(<<Len(idx)>>, idx) >>) >>) >>))

\* idx lists with entries from 0 to one more than the number of objects
Containers == {Container(idx) : idx \in UNION {[1..n -> 0..3] : n \in 0..MaxIdx}}

\* The object arrays given to the codec, by what they are.
CodecInputs(label) ==
    CASE label = "char" -> CharArrays
      [] label = "f64" -> F64Arrays
      [] label = "logical" -> LogicalArrays
      [] label = "cell" -> CellArrays
      [] label = "struct" -> StructArrays
      [] label = "unwritable" -> UnwritableArrays
      [] label = "lowered" -> LoweredStructs
      [] label = "container" -> Containers

CodecLabels == {"char", "f64", "logical", "cell", "struct", "unwritable", "lowered", "container"}

\* write_object_array(LowLevelSqw(BytesIO(), byteorder=byteorder), objects)
WriteObjectArrayResult(label, byteorder, objects, io) ==
    /\ file' = io.buf
    /\ fpos' = io.pos
    /\ foreign' = [kind |-> "ir", label |-> label, byteorder |-> byteorder, objects |-> objects,
                   err |-> io.err, note |-> io.note]

WriteObjectArray(label, byteorder, objects) ==
    /\ builder.state = "none" /\ file = <<>> /\ fpos = 0 /\ Untouched
    /\ foreign.kind = "none"
    /\ WriteObjectArrayResult(label, byteorder, objects,
                              write_object_array(LowLevelSqw(file, fpos, byteorder), objects))
    /\ UNCHANGED <<builder, created, sqw, wrapper, call, reuse>>

ReadObjectArrayResult(r) ==
    /\ fpos' = r.io.pos
    /\ call' = [status |-> "read", err |-> r.io.err, pos |-> r.io.pos, val |-> r.val,
                parsed |-> Failed("none")]

\* buffer.seek(0); read_object_array(LowLevelSqw(buffer, byteorder=byteorder))
ReadObjectArray ==
    /\ foreign.kind = "ir" /\ foreign.err = None /\ call.status = "none"
    /\ ReadObjectArrayResult(read_object_array(LowLevelSqw(file, 0, foreign.byteorder)))
    /\ UNCHANGED <<file, builder, created, sqw, wrapper, foreign, reuse>>

\* _parse_block of the object array that was read
ParseBlock ==
    /\ foreign.kind = "ir" /\ call.status = "read" /\ call.err = None
    /\ call' = [call EXCEPT !.status = "parsed", !.parsed = parse_block(call.val)]
    /\ UNCHANGED <<file, fpos, builder, created, sqw, wrapper, foreign, reuse>>

NextCodec ==
    \/ \E label \in CodecLabels, byteorder \in Byteorder :
          \E objects \in CodecInputs(label) : WriteObjectArray(label, byteorder, objects)
    \/ ReadObjectArray
    \/ ParseBlock

SpecCodec == Init /\ [][NextCodec]_vars

\* ------------------------------------------------------------------- claims

\* The block allocation table as the reader finds it in the file create() wrote.
WrittenBat == read_block_allocation_table(LowLevelSqw(file, created.bat_offset, builder.byteorder))

\* The descriptors of a table, in its order.
Descriptors(table) == [i \in 1..Len(table) |-> table[i].value]

\* The file bytes a descriptor points at.
PayloadBytes(D) == StreamRead(file, D.position, D.size)

PayloadsAreBuffers(descriptors) ==
    \A i \in 1..Len(descriptors) :
        descriptors[i].block_type = regular =>
            /\ DictHas(created.block_buffers, descriptors[i].name)
            /\ Len(PayloadBytes(descriptors[i])) = descriptors[i].size
            /\ PayloadBytes(descriptors[i]) = DictGet(created.block_buffers, descriptors[i].name)

Contiguous(descriptors, bat_end) ==
    /\ Len(descriptors) >= 1
    /\ descriptors[1].position = bat_end
    /\ \A i \in 2..Len(descriptors) :
           descriptors[i].position = descriptors[i - 1].position + descriptors[i - 1].size

WrittenBatSize == read_u32(LowLevelSqw(file, created.bat_offset, builder.byteorder)).val

\* The table read from the file says its descriptors take size bytes, and they do.
BatSizeIs(bat, size) ==
    /\ bat.bat_size = size
    /\ bat.io.err = None
    /\ bat.io.pos = created.bat_offset + 8 + size

\* The table of no descriptors: its buffer is the two u32 and its bat_size is 0.
EmptyBatSize ==
    \A byteorder \in Byteorder :
        /\ Len(serialize_block_allocation_table(byteorder, <<>>, 0).buffer) = 8
        /\ FromBytes(SubSeq(serialize_block_allocation_table(byteorder, <<>>, 0).buffer, 1, 4),
                     byteorder) = 0

UniqueNames(descriptors) ==
    \A i, j \in 1..Len(descriptors) : i # j => descriptors[i].name # descriptors[j].name

\* The table read from the file says it has n descriptors, and it has.
CountIs(bat, n) ==
    /\ bat.io.err = None
    /\ bat.n_blocks = n
    /\ Len(bat.val) = n
    /\ UniqueNames(Descriptors(bat.val))
    /\ bat.io.pos = created.bat_offset + Len(created.bat_buffer)

PayloadOrder(descriptors) ==
    /\ \A i, j \in 1..Len(descriptors) :
           i < j => descriptors[i].position + descriptors[i].size <= descriptors[j].position
    /\ PayloadsAreBuffers(descriptors)
    /\ \A i \in 1..Len(descriptors) :
           descriptors[i].block_type = pix =>
               StreamRead(file, descriptors[i].position, 12)
                   = ToBytes(builder.pix_placeholder.rows, 4, builder.byteorder)
                     \o ToBytes(builder.pix_placeholder.n_pixels, 8, builder.byteorder)

Names(descriptors) == [i \in 1..Len(descriptors) |-> descriptors[i].name]

\* The regular blocks in the order they were first registered, then the pixel
\* data block if register_pixel_data was called.
RegularThenPix ==
    SelectSeq(builder.registered, LAMBDA name : name # NamePixDataWrap)
    \o SelectSeq(builder.registered, LAMBDA name : name = NamePixDataWrap)

OrderIs(descriptors, names) == PayloadOrder(descriptors) /\ Names(descriptors) = names

SmallerValueChosen(b, chosen) ==
    /\ ~DigitsLess(U32Digits(b, little), U32Digits(b, chosen))
    /\ ~DigitsLess(U32Digits(b, big), U32Digits(b, chosen))
    /\ DigitsLess(U32Digits(b, little), U32Digits(b, big)) => chosen = little
    /\ DigitsLess(U32Digits(b, big), U32Digits(b, little)) => chosen = big
    /\ b = <<6, 0, 0, 0>> => chosen = little
    /\ b = <<0, 0, 0, 6>> => chosen = big

\* The first u32 values below 2^16 a file is meant to start with.
FirstU32 == 0..(Pow2(16) - 1)

\* For every first u32 below 2^16, in either byte order, the byte order that
\* gives the smaller value is selected.
SmallerValueChosenBelow2p16 ==
    \A value \in FirstU32, byteorder \in Byteorder :
        SmallerValueChosen(ToBytes(value, 4, byteorder),
                           deduce_byteorder(ToBytes(value, 4, byteorder), 0, None).byteorder)

\* A first u32 below 2^16 written in a byte order is detected as that byte
\* order, 0 left out: its bytes are the same in both byte orders.
DetectsIntended ==
    \A value \in FirstU32 \ {0}, byteorder \in Byteorder :
        deduce_byteorder(ToBytes(value, 4, byteorder), 0, None).byteorder = byteorder

\* C7: with no byteorder supplied, detection reads the first four bytes as a u32
\* in little- and in big-endian and selects the byte order that gives the
\* smaller value (big when the two values are equal); 06 00 00 00 is detected as
\* little-endian and 00 00 00 06 as big-endian; for every first u32 below 2^16
\* the smaller value is selected, and one from 1 on is detected as the byte
\* order it was written in (the bytes of 0 are the same in both).
C7_SmallerValue ==
    /\ (wrapper.status = "ok" /\ wrapper.requested = None /\ wrapper.nread = 4) =>
           SmallerValueChosen(StreamRead(file, wrapper.pos_before, 4), wrapper.byteorder)
    /\ (sqw.status # "none" /\ sqw.requested = None /\ created.status = "ok") =>
           sqw.byteorder = builder.byteorder
    /\ SmallerValueChosenBelow2p16
    /\ DetectsIntended

\* A wrapper was made with auto-detection on a stream that starts 06 00 00 00.
C7_Witness ==
    /\ wrapper.status = "ok"
    /\ wrapper.requested = None
    /\ wrapper.pos_before = 0
    /\ file = <<6, 0, 0, 0>>
    /\ wrapper.byteorder = little

\* C8: constructing the low-level wrapper never changes the stream position:
\* with auto-detection the four bytes are read and the position is put back,
\* and with a byteorder supplied nothing is read and that byteorder is used.
C8_PositionKept ==
    wrapper.status = "ok" =>
        /\ wrapper.pos_after = wrapper.pos_before
        /\ fpos = wrapper.pos_before
        /\ wrapper.requested # None =>
               wrapper.nread = 0 /\ wrapper.byteorder = wrapper.requested
        /\ wrapper.requested = None =>
               wrapper.nread = Len(StreamRead(file, wrapper.pos_before, 4))

\* A wrapper was made with auto-detection on a stream of four bytes, all read.
C8_Witness ==
    /\ wrapper.status = "ok"
    /\ wrapper.requested = None
    /\ wrapper.nread = 4
    /\ Len(file) = 4

\* The byte order a build() option stands for, on a host of byte order host.
OptionByteorder(option, host) == IF option = "native" THEN host ELSE option

\* C9, as stated: for each byteorder option B of native, little and big,
\* build(..., byteorder=B) gives a builder, and the file its create() writes is
\* found to be of byte order B when opened with auto-detection, native being the
\* byte order of the host.
C9_OptionRoundTrip ==
    builder.state # "none" =>
        /\ builder.state = "built"
        /\ (created.status = "ok" /\ sqw.status # "none" /\ sqw.requested = None) =>
               \E host \in HostByteorders :
                   sqw.byteorder = OptionByteorder(builder.requested, host)

\* The header a file starts with, as bytes.
HeaderBytes(n_dims, byteorder) ==
    ToBytes(Len(ProgName), 4, byteorder) \o ProgName \o PackF64(ProgVersion, byteorder)
    \o ToBytes(SQW, 4, byteorder) \o ToBytes(n_dims, 4, byteorder)

\* C10: every file written by create() starts with the header fields prog_name,
\* prog_version, sqw_type, n_dims, in that order, being "horace", 4.0, SQW and
\* the builder's dimension count: 0 when register_pixel_data was never called,
\* its n_dims argument otherwise; the header is written first, before the block
\* allocation table and the payloads.
C10_Header ==
    created.status # "none" =>
        /\ StreamRead(file, created.start, 26)
               = HeaderBytes(IF builder.pix_placeholder.set THEN builder.n_dim ELSE 0,
                             builder.byteorder)
        /\ ~builder.pix_placeholder.set => builder.n_dim = 0
        /\ created.status = "ok" => created.bat_offset = created.start + 26
        /\ created.status # "ok" => Len(file) = created.start + 26

\* register_pixel_data(n_dims=1) was called and create() wrote the file.
C10_Witness ==
    /\ created.status = "ok"
    /\ builder.pix_placeholder.set
    /\ builder.n_dim = 1
    /\ Len(created.block_descriptors) >= 4

\* C11: a second register_pixel_data on a builder, before or after create(), ends
\* with RuntimeError (the AlreadyRegistered error) and leaves the builder as the
\* first call set it: the dimension count, the experiments, the registered blocks
\* and the pixel placeholder are unchanged.
C11_SecondRegistrationRejected ==
    [][\A n_pixels \in 0..MaxPixels, n_dims \in 0..MaxDims, rows \in {DefaultPixRows} \cup 0..MaxRows :
         (/\ builder.pix_placeholder.set
          /\ \/ RegisterPixelData(n_pixels, n_dims, rows)
             \/ RegisterPixelDataLater(n_pixels, n_dims, rows))
         => (/\ builder'.raised = "RuntimeError"
             /\ builder'.n_dim = builder.n_dim
             /\ builder'.expdata = builder.expdata
             /\ builder'.data_blocks = builder.data_blocks
             /\ builder'.registered = builder.registered
             /\ builder'.pix_placeholder = builder.pix_placeholder)]_vars

\* A second call was rejected on a builder the first call gave one dimension.
C11_Witness ==
    /\ builder.raised = "RuntimeError"
    /\ builder.pix_placeholder.set
    /\ builder.n_dim = MaxDims
    /\ DictHas(builder.data_blocks, NamePixMetadata)

\* read_data_block was called for the block named n, as one tuple or as two strs.
Asked(n) ==
    /\ call.status # "none"
    /\ \/ call.name = NameTuple(n) /\ call.level2_name = NoLevel2
       \/ call.name = NameStr(n[1]) /\ call.level2_name = Level2(n[2])

\* The descriptor the table has for the name n, and no other for it.
Described(table, n, block_type) ==
    /\ DictHas(table, n)
    /\ DictGet(table, n).name = n
    /\ DictGet(table, n).block_type = block_type

\* C12, as stated: after register_pixel_data and create(), the written block
\* allocation table has, next to ("", "main_header"), descriptors named
\* ("pix", "metadata"), ("pix", "data_wrap") and ("experiment_info", "expdata"),
\* data_wrap of block type pix and the others regular, and the pix metadata read
\* back has npix equal to the n_pixels argument and a data_range of one row per
\* pixel row and 2 columns.
C12_PixBlocksReadBack ==
    (created.status = "ok" /\ builder.pix_placeholder.set) =>
        /\ Described(WrittenBat.val, NameMainHeader, regular)
        /\ Described(WrittenBat.val, NamePixMetadata, regular)
        /\ Described(WrittenBat.val, NameExpdata, regular)
        /\ Described(WrittenBat.val, NamePixDataWrap, pix)
        /\ (sqw.status = "ok" /\ Asked(NamePixMetadata)) =>
              /\ call.status = "ok"
              /\ ~call.raw
              /\ call.val.cls = "SqwPixelMetadata"
              /\ call.val.npix = builder.pix_placeholder.n_pixels
              /\ call.val.data_range.shape = <<builder.pix_placeholder.rows, 2>>

\* The part of C12 that the code keeps: the descriptors of the written table.
C12_PixBlocksDescribed ==
    (created.status = "ok" /\ builder.pix_placeholder.set) =>
        /\ Described(WrittenBat.val, NameMainHeader, regular)
        /\ Described(WrittenBat.val, NamePixMetadata, regular)
        /\ Described(WrittenBat.val, NameExpdata, regular)
        /\ Described(WrittenBat.val, NamePixDataWrap, pix)

\* The two forms of a block name read_data_block takes.
TupleForm(name, level2_name) ==
    name.kind = "tuple" /\ Len(name.items) = 2 /\ ~level2_name.given

StrsForm(name, level2_name) == name.kind = "str" /\ level2_name.given

\* What a read_data_block call gave, the stream being where fpos is.
SameOutcome(c, r) ==
    /\ c.status = r.status
    /\ c.val = r.val
    /\ c.raw = r.raw
    /\ c.warnings = r.warnings
    /\ c.pos_after = r.pos

\* C13: read_data_block takes a block name as one tuple of two strings or as two
\* separate strings, and the two forms address the same block; every other form
\* (a tuple with an extra string, a single string alone, a tuple of three) ends
\* with TypeError (the InvalidName error) before any lookup or seek: the stream
\* stays where it was.
C13_NameForms ==
    [][(call.status = "none" /\ call'.status # "none") =>
         /\ (~TupleForm(call'.name, call'.level2_name) /\ ~StrsForm(call'.name, call'.level2_name))
              => (/\ call'.status = "TypeError"
                  /\ call'.pos_after = call'.pos_before
                  /\ fpos' = fpos)
         /\ StrsForm(call'.name, call'.level2_name)
              => SameOutcome(call',
                             read_data_block(sqw.block_allocation_table,
                                             LowLevelSqw(file, fpos, sqw.byteorder),
                                             NameTuple(<<call'.name.items[1], call'.level2_name.value>>),
                                             NoLevel2))]_vars

\* A tuple given with an extra string was rejected although the table has a block
\* of the tuple's name, and the stream was not moved.
C13_Witness ==
    /\ call.status = "TypeError"
    /\ call.name.kind = "tuple" /\ Len(call.name.items) = 2 /\ call.level2_name.given
    /\ DictHas(sqw.block_allocation_table, call.name.items)
    /\ call.pos_after = call.pos_before

\* The name a well-formed pair of arguments gives.
NameGiven(name, level2_name) ==
    IF name.kind = "tuple" THEN name.items ELSE <<name.items[1], level2_name.value>>

\* C14: read_data_block with a well-formed name that is no key of the block
\* allocation table ends with KeyError (the NotFound error) before any seek: the
\* stream position, the file header and the block allocation table of the handle
\* are unchanged.
C14_NotFoundBeforeSeek ==
    [][(/\ call.status = "none" /\ call'.status # "none"
        /\ TupleForm(call'.name, call'.level2_name) \/ StrsForm(call'.name, call'.level2_name)
        /\ ~DictHas(sqw.block_allocation_table, NameGiven(call'.name, call'.level2_name)))
       => (/\ call'.status = "KeyError"
           /\ call'.pos_after = call'.pos_before
           /\ fpos' = fpos
           /\ file' = file
           /\ sqw' = sqw)]_vars

\* A name the table lacks was asked for on a handle whose table has a block,
\* the stream being past the table.
C14_Witness ==
    /\ call.status = "KeyError"
    /\ sqw.status = "ok"
    /\ Len(sqw.block_allocation_table) >= 1
    /\ call.pos_before > 0
    /\ call.pos_after = call.pos_before
    /\ fpos = call.pos_before

\* The object array of the regular block named n, as read_object_array reads it
\* from the opened file.
BlockRead(n) ==
    read_object_array(LowLevelSqw(file, DictGet(sqw.block_allocation_table, n).position, sqw.byteorder))

\* C15, as stated: no failure that arises while a regular block's IR is raised
\* to a schema object escapes read_data_block: whenever the object array of the
\* block was read, read_data_block returns, either the schema object or the raw
\* IR with a warning, and raises nothing.
C15_RaiseNeverEscapes ==
    (/\ sqw.status = "ok" /\ foreign.kind = "block"
     /\ Asked(NameMainHeader)
     /\ BlockRead(NameMainHeader).io.err = None)
    => (/\ call.status = "ok"
        /\ call.raw => (call.val = BlockRead(NameMainHeader).val /\ Len(call.warnings) = 1)
        /\ ~call.raw => call.warnings = <<>>)

\* The struct of the block is of a type no parser is registered for, or is a
\* container whose second object is.
HoldsUnknownStruct == foreign.kind = "block" /\ foreign.label \in {"unknown", "nested_unknown"}

\* C16: of a regular block that holds a structurally valid struct whose
\* (serial_name, version) has no registered parser, read_data_block returns the
\* object array as it was read, unchanged, and gives exactly one warning; the
\* same when the struct without a parser is an object of a container block: the
\* whole block is returned, with one warning.
C16_UnknownStructReturnedRaw ==
    (sqw.status = "ok" /\ HoldsUnknownStruct /\ Asked(NameMainHeader)) =>
        /\ call.status = "ok"
        /\ call.raw
        /\ call.val = BlockRead(NameMainHeader).val
        /\ call.val.cls = "ObjectArray" /\ call.val.ty = TagStruct /\ call.val.shape = <<1>>
        /\ call.warnings = <<WarnParse>>

\* The block of a container whose first object has a parser and whose second
\* has none came back as it was read, with one warning.
C16_Witness ==
    /\ sqw.status = "ok" /\ Asked(NameMainHeader)
    /\ foreign.kind = "block" /\ foreign.label = "nested_unknown"
    /\ call.status = "ok" /\ call.raw
    /\ Len(call.warnings) = 1
    /\ call.val.data[1].field_names[1] = Chars("serial_name")

\* A whole file of another program was opened: its header names a program
\* other than horace, or a version other than 4.0.
OtherProgramOpened ==
    /\ foreign.kind \in {"header", "block"} /\ foreign.cut = "none"
    /\ foreign.prog_name # ProgName \/ foreign.prog_version # ProgVersion
    /\ sqw.status # "none"

\* C17: opening a file whose header has a program name other than "horace" or
\* a program version other than 4.0 does not fail; it gives a single "SQW
\* program not supported" warning, also when both differ, goes on to read
\* sqw_type, n_dims and the block allocation table, and the file header of the
\* handle carries the values found in the file.
C17_OtherProgramWarnsOnce ==
    OtherProgramOpened =>
        /\ sqw.status = "ok"
        /\ sqw.warnings = <<WarnProgram>>
        /\ sqw.file_header = SqwFileHeader(foreign.prog_name, foreign.prog_version, SQW, foreign.n_dims)
        /\ DictKeys(sqw.block_allocation_table)
             = (IF foreign.kind = "block" THEN <<NameMainHeader>> ELSE <<>>)

\* A file of sqomega 8.0 with one block was opened.
C17_Witness ==
    /\ OtherProgramOpened /\ foreign.kind = "block"
    /\ foreign.prog_name = Chars("sqomega") /\ foreign.prog_version = FloatOfInt(8)
    /\ sqw.status = "ok" /\ Len(sqw.warnings) = 1
    /\ sqw.file_header.prog_name = Chars("sqomega")
    /\ DictHas(sqw.block_allocation_table, NameMainHeader)

\* A file that ends inside its header, or right after it, was opened.
CutShortOpened == foreign.kind = "header" /\ foreign.cut # "none" /\ sqw.status # "none"

\* C18, as stated: every primitive read (u32, f64, char array) that reaches the
\* end of the file before the bytes it needs fails with the Truncated error
\* instead of returning a value; so does opening a stream that ends right
\* after the file header, before the block allocation table.
C18_ShortReadTruncated == CutShortOpened => sqw.status = "Truncated"

\* The one block of the file starts with a byte no reader is registered for,
\* and read_data_block was asked for the block.
TagWithoutReaderRead ==
    /\ sqw.status = "ok" /\ foreign.kind = "tag"
    /\ foreign.tag \notin ReaderTags \cup {TagSerializable}
    /\ Asked(NameMainHeader)

\* C19, as stated: reading an object array whose type tag has no registered
\* reader fails with UnsupportedTag carrying the tag and the stream position
\* of the tag byte, for every tag byte without a reader, bytes that are no
\* tags at all included.
C19_UnsupportedTagCarriesPosition ==
    TagWithoutReaderRead =>
        /\ call.status = "ValueError"
        /\ call.note = [tag |-> foreign.tag,
                        position |-> DictGet(sqw.block_allocation_table, NameMainHeader).position]

\* C20, as stated: once create() has been entered on a builder, no later
\* register_pixel_data, add_dnd_metadata or create() call on that builder
\* succeeds or changes what is written to the file.
C20_BuilderUnusableAfterCreate ==
    (reuse.calls + reuse.creates > 0) => (~reuse.succeeded /\ file = reuse.first)

\* C21, as stated: the handle create() yields has the file header and the
\* block allocation table materialized in full: its file_header is the header
\* written, and its block allocation table has one descriptor, with the final
\* position, for every block written to the file, as the handle open() gives
\* on the same file has.
C21_CreateHandleMaterialized ==
    created.status = "ok" =>
        /\ created.file_header
             = read_file_header(LowLevelSqw(file, created.start, builder.byteorder)).val
        /\ created.handle_table = WrittenBat.val
        /\ sqw.status = "ok" => created.handle_table = sqw.block_allocation_table

\* The header half of the claim: the file_header of the handle create() yields
\* is the header read from the file.
C21_CreateHandleHeader ==
    created.status = "ok" =>
        created.file_header
          = read_file_header(LowLevelSqw(file, created.start, builder.byteorder)).val

\* C22, as stated: for every title t and every byteorder, build(buf,
\* title=t).create() and then open(buf).read_data_block(("", "main_header"))
\* returns a main header, not the object array read, with the title t, the
\* full_filename "" of a sink in memory, nfiles 0 and the creation_date the
\* time of create() without its microseconds.
C22_MainHeaderReadBack ==
    (created.status = "ok" /\ sqw.status = "ok" /\ Asked(NameMainHeader)) =>
        /\ call.status = "ok" /\ ~call.raw
        /\ call.val = SqwMainHeader(<<>>, builder.title, 0,
                                    [created.now EXCEPT !.microsecond = 0])

\* The size of the pixel data block: a u32 for the number of rows, a u64 for
\* the number of pixels, 4 bytes for every value of the array.
PixBlockSize == 4 + 8 + (builder.pix_placeholder.n_pixels * builder.pix_placeholder.rows * 4)

\* The blocks of create() with the main header taken to the end, after the
\* pixel data block, as _serialize_block_allocation_table lays them out.
LaidOutAfterPix ==
    serialize_block_allocation_table(
        builder.byteorder,
        Tail(created.block_descriptors) \o <<Head(created.block_descriptors)>>,
        created.bat_offset).descriptors

\* The descriptor D of the pixel data block has the size of the placeholder
\* and the file does not go on after the block.
PixSized(D) ==
    /\ D.size = PixBlockSize
    /\ D.block_type = pix
    /\ Len(file) <= D.position + PixBlockSize

\* The table of the file has a descriptor of the pixel data block.
PixDescribed(bat) ==
    DictHas(bat, NamePixDataWrap) /\ PixSized(DictGet(bat, NamePixDataWrap))

\* The block that follows the pixel data block in the layout L starts where
\* the pixel data block ends.
AdvancedByPix(L) ==
    /\ L[Len(L)].key = NameMainHeader
    /\ L[Len(L) - 1].key = NamePixDataWrap
    /\ L[Len(L)].value.position = L[Len(L) - 1].value.position + PixBlockSize

MainHeaderCells ==
    serialize_to_ir(
        serialize_to_dict(DictGet(prepare_data_blocks(builder, created.now), NameMainHeader)).fields
    ).field_values.data

\* The bytes write_object_array writes for the object array a.
Written(a) == write_object_array(LowLevelSqw(<<>>, 0, builder.byteorder), a).buf

\* What read_object_array reads from those bytes.
ReadBack(a) == read_object_array(LowLevelSqw(Written(a), 0, builder.byteorder))

\* The bytes written after the tag, the number of dimensions and the shape.
PayloadLen(a) == Len(Written(a)) - (1 + 1 + (4 * Len(a.shape)))

\* The char array a is written with as many payload bytes as its shape says,
\* and is read back as it was written, to the end of the payload.
CharArrayRoundTrips(a) ==
    /\ PayloadLen(a) = volume(a.shape)
    /\ ReadBack(a).io.err = None
    /\ ReadBack(a).io.pos = Len(Written(a))
    /\ ReadBack(a).val = a

\* C24, as stated: for every char object array the writer emits, every string
\* and datetime field of a lowered schema block included, the number of
\* payload bytes written is shape[0] times the product of the other
\* dimensions, so that the reader, which takes shape[0] characters for a
\* string, reads back exactly the string that was written and leaves the
\* stream at the end of the payload.
C24_CharPayloadMatchesShape ==
    created.status = "ok" =>
        \A i \in 1..Len(MainHeaderCells) :
            MainHeaderCells[i].ty = TagChar => CharArrayRoundTrips(MainHeaderCells[i])

RECURSIVE SameArray(_, _)
\* written == read of an object array that was written and the one that was
\* read: the same class, tag and shape, and equal data; a list of ir.F64 and
\* the array of numbers _read_f64 gives are not equal
SameArray(written, read) ==
    /\ written.cls = read.cls /\ written.ty = read.ty /\ written.shape = read.shape
    /\ Len(written.data) = Len(read.data)
    /\ CASE written.ty = TagF64 -> ~is_ndarray(read) /\ written.data = read.data
         [] written.ty = TagCell ->
              \A i \in 1..Len(written.data) : SameArray(written.data[i], read.data[i])
         [] written.ty = TagStruct ->
              \A i \in 1..Len(written.data) :
                  /\ written.data[i].field_names = read.data[i].field_names
                  /\ SameArray(written.data[i].field_values, read.data[i].field_values)
         [] OTHER -> written.data = read.data

\* An object array of the supported tags was written and read again.
ReadAgain ==
    /\ foreign.kind = "ir"
    /\ foreign.label \in {"char", "f64", "logical", "cell", "struct"}
    /\ call.status # "none"

\* C25, as stated: for every object array built from the supported tags (char,
\* f64, logical, cell, struct, nested) and for both byteorders,
\* read_object_array applied to the bytes write_object_array produced returns
\* an equal object array (same tag, shape and data) and consumes exactly the
\* bytes that were written.
C25_ObjectArrayRoundTrip ==
    ReadAgain =>
        /\ call.err = None
        /\ call.pos = Len(file)
        /\ SameArray(foreign.objects, call.val)

\* The bytes of a descriptor in the table: three length-prefixed character
\* arrays, the u64 position, the u32 size and the u32 locked.
DescriptorBytes(D) ==
    (4 + Len(D.block_type)) + (4 + Len(D.name[1])) + (4 + Len(D.name[2])) + 8 + 4 + 4

RECURSIVE PositionOffset(_, _)
\* Where the position field of the i-th descriptor sits in the buffer of the
\* table, after bat_size and n_blocks and the descriptors before it.
PositionOffset(descriptors, i) ==
    IF i = 1 THEN (8 + DescriptorBytes(descriptors[1].value)) - 16
    ELSE DescriptorBytes(descriptors[1].value) + PositionOffset(Tail(descriptors), i - 1)

\* The bytes of the buffer that take part in the patching: bat_size and the
\* position fields.
PatchedBytes(descriptors) ==
    1..4 \cup UNION {(PositionOffset(descriptors, i) + 1)..(PositionOffset(descriptors, i) + 8) :
                        i \in 1..Len(descriptors)}

\* The buffer before and after the patching, for the descriptors returned
PatchedOnly(descriptors, provisional, buffer, byteorder) ==
    /\ Len(buffer) = Len(provisional)
    /\ \A k \in 1..Len(buffer) : buffer[k] # provisional[k] => k \in PatchedBytes(descriptors)
    /\ SubSeq(buffer, 5, 8) = ToBytes(Len(descriptors), 4, byteorder)
    /\ SubSeq(provisional, 1, 4) = <<0, 0, 0, 0>>
    /\ SubSeq(buffer, 1, 4) = ToBytes(Len(buffer) - 8, 4, byteorder)
    /\ \A i \in 1..Len(descriptors) :
          /\ SubSeq(provisional, PositionOffset(descriptors, i) + 1,
                    PositionOffset(descriptors, i) + 8) = <<0, 0, 0, 0, 0, 0, 0, 0>>
          /\ SubSeq(buffer, PositionOffset(descriptors, i) + 1, PositionOffset(descriptors, i) + 8)
               = ToBytes(descriptors[i].value.position, 8, byteorder)

LoweredParsed == foreign.kind = "ir" /\ foreign.label = "lowered" /\ call.status = "parsed"

\* C27, as stated: every struct produced by lowering a schema object, whatever
\* its number of fields n, its field values being a cell array of shape
\* (n, 1), passes the cell-shape guard of raising, so that a block written is
\* never rejected as a multi-dimensional cell array when it is read back.
C27_LoweredPassesShapeGuard ==
    LoweredParsed =>
        /\ call.val.data[1].field_values.shape = <<Len(foreign.objects.data[1].field_names), 1>>
        /\ cell_shape_guard(call.val.data[1])

RECURSIVE BytesOfNames(_)
\* The number of bytes write_chars writes for the names.
BytesOfNames(names) ==
    IF names = <<>> THEN 0 ELSE Len(EncodeUtf8(Head(names))) + BytesOfNames(Tail(names))

\* The length the file records for the i-th field name of the struct of an
\* object array of shape (1,) written at the start of the file: after the tag,
\* the number of dimensions, the shape and n_fields.
RecordedNameLength(i) ==
    FromBytes(SubSeq(file, (1 + 1 + 4 + 4) + (4 * (i - 1)) + 1, (1 + 1 + 4 + 4) + (4 * i)),
              foreign.byteorder)

\* What the reader has after the names of the struct: the names, and its
\* position.
NamesRead == single_struct_names(LowLevelSqw(file, 1 + 1 + 4, foreign.byteorder))

\* The names read are those written, and the stream is where the field values
\* start.
NamesRecovered(names, r) ==
    /\ r.io.err = None
    /\ r.val = names
    /\ r.io.pos = (1 + 1 + 4 + 4) + (4 * Len(names)) + BytesOfNames(names)

\* C28, as stated: for every struct the codec writes, the length recorded for
\* each field name is the number of bytes written for the name, so that the
\* reader, which reads each name by its recorded length, recovers exactly the
\* field names written and is at the start of the field-values cell array
\* afterwards.
C28_NameLengthIsByteLength ==
    (foreign.kind = "ir" /\ foreign.label = "struct") =>
        /\ \A i \in 1..Len(foreign.objects.data[1].field_names) :
              RecordedNameLength(i) = Len(EncodeUtf8(foreign.objects.data[1].field_names[i]))
        /\ NamesRecovered(foreign.objects.data[1].field_names, NamesRead)

\* write_object_array was given an object array of a tag without a writer.
UnwritableWritten == foreign.kind = "ir" /\ foreign.label = "unwritable"

\* C29, as stated: a write_object_array call that fails because the tag has no
\* registered writer leaves the sink unchanged: no tag, dimension count or
\* shape bytes have been written and the stream position is the one before
\* the call.
C29_FailedWriteLeavesSink ==
    UnwritableWritten => (foreign.err = "ValueError" /\ file = <<>> /\ fpos = 0)

\* The failing half of the claim alone: the call raises the error of the
\* registry, with the tag and the position before the call.
C29_FailedWriteRaises ==
    UnwritableWritten =>
        (foreign.err = "ValueError" /\ foreign.note = [tag |-> foreign.objects.ty, position |-> 0])

\* A container of the two main headers o_1 (1 file) and o_2 (2 files) was
\* written, read again and given to _parse_block.
ContainerParsed == foreign.kind = "ir" /\ foreign.label = "container" /\ call.status = "parsed"

\* The idx the container was built with, as the numbers written.
GivenIdx ==
    foreign.objects.data[1].field_values.data[3].data[1].field_values.data[2].data

\* The k-th entry of idx is the number i.
IdxIs(k, i) == GivenIdx[k].value = FloatOfInt(i)

\* The object o_i as it is parsed.
ParsedObject(i) == SqwMainHeader(<<>>, Chars("abc"), i, PlaceholderDate)

\* C30, as stated: raising a unique_objects_container with the objects
\* o_1..o_n and the index list idx returns a list of len(idx) elements whose
\* k-th element is the parsed object o_i with i = idx[k] taken as a 1-based
\* index; an idx entry outside 1..n never selects an object.
C30_IdxIsOneBased ==
    ContainerParsed =>
        IF \A k \in 1..Len(GivenIdx) : IdxIs(k, 1) \/ IdxIs(k, 2)
        THEN /\ call.parsed.status = "ok" /\ ~call.parsed.raw
             /\ Len(call.parsed.val) = Len(GivenIdx)
             /\ \A k \in 1..Len(GivenIdx) :
                   \A i \in 1..2 : IdxIs(k, i) => call.parsed.val[k] = ParsedObject(i)
        ELSE ~(call.parsed.status = "ok" /\ ~call.parsed.raw)

====
